---- MODULE Spec2Model ----
(***************************************************************************)
(* Model of the circuit-json-to-dsn conversion pipeline: the pipeline      *)
(* driver (CircuitJsonToDsnConverter), the stage base class                *)
(* (ConverterStage) and the stages Initialize, Structure, Library,         *)
(* Placement and Network, together with the shared conversion context.     *)
(*                                                                         *)
(* Conventions                                                             *)
(*  - An optional value (undefined / absent in the source) is the empty    *)
(*    tuple <<>>, a present value v is <<v>>; Coalesce models `??`.        *)
(*  - Stage positions are the 0-based array positions of the pipeline.     *)
(*  - Board dimensions are whole millimetres.  width / 2 is not a whole    *)
(*    number, so source-space corner coordinates are held doubled (in      *)
(*    half-millimetres) and applyToPoint2 halves after scaling.            *)
(***************************************************************************)
EXTENDS Integers, Sequences, FiniteSets, TLC

\* ------------------------------------------------------------------------
\* Bounds of the explored input space.
MaxLayers == 4
MaxDim == 2
MaxCoord == 1
MaxRetries == 2
MaxOver == 2

\* ------------------------------------------------------------------------
\* Program constants.
MAX_ITERATIONS == 1000
CIRCUIT_JSON_TO_DSN_SCALE == 1000
DEFAULT_NUM_LAYERS == 2
DEFAULT_BOARD_SIZE == 100
CLEARANCE_VALUE == 200
CLEARANCE_VALUE_SMD_SMD == 50
TRACE_WIDTH_VALUE == 200
PipelineLen == 5

\* Pipeline positions (CircuitJsonToDsnConverter constructor).
INITIALIZE == 0
STRUCTURE == 1
LIBRARY == 2
PLACEMENT == 3
NETWORK == 4
Stages == 0 .. (PipelineLen - 1)

\* ------------------------------------------------------------------------
\* Optional values.
None == <<>>
Some(v) == <<v>>
Coalesce(o, d) == IF o = None THEN d ELSE o[1]

VARIABLES
  circuitJson,              \* the input records (never written)
  transformMatrix,          \* ctx.circuitJsonToDsnTransformMatrix (scale factor)
  spectraDsn,               \* ctx.spectraDsn, the output document
  componentToFootprintName, \* ctx.componentToFootprintName
  viaPadstackName,          \* ctx.viaPadstackName
  currentStageIndex,        \* driver: position of the active stage
  finished,                 \* driver: finished flag
  iteration,                \* per stage: iteration counter
  stageFinished,            \* per stage: finished flag
  stepCalls,                \* per stage: number of invocations of its _step body
  processedPadstacks,       \* Library stage: private set of padstack ids
  footprintSignatureToName, \* Library stage: private signature -> name map
  stuckStage,               \* position of a stage whose _step returns unfinished, or -1
  caller,                   \* position of the calling code
  fault                     \* message of the fault the last call raised, or "none"

vars == <<circuitJson, transformMatrix, spectraDsn, componentToFootprintName,
          viaPadstackName, currentStageIndex, finished, iteration,
          stageFinished, stepCalls, processedPadstacks,
          footprintSignatureToName, stuckStage, caller, fault>>

\* ------------------------------------------------------------------------
\* The output document.  A section field is None until it is assigned.
NoDocument ==
  [exists |-> FALSE, designName |-> "", sections |-> FALSE, unit |-> None,
   layers |-> None, boundary |-> None, rules |-> None, via |-> None,
   images |-> None, padstacks |-> None, components |-> None,
   nets |-> None, wires |-> None]

\* new SpectraDsn({ designName }) : a document without sections.
NewSpectraDsn(name) ==
  [NoDocument EXCEPT !.exists = TRUE, !.designName = name]

\* The document InitializeDsnStage builds: parser, resolution, unit and the
\* five empty sections.
InitializedDsn ==
  [NewSpectraDsn("circuit-design") EXCEPT !.sections = TRUE, !.unit = Some("um")]

\* ------------------------------------------------------------------------
\* Structure stage (AddStructureStage).

\* db.pcb_board.list()[0]
FirstBoard(cj) == IF Len(cj.pcb_board) = 0 THEN None ELSE Some(cj.pcb_board[1])

\* pcbBoard?.<field> ?? dflt
BoardField(pcbBoard, field, dflt) ==
  IF pcbBoard = None THEN dflt ELSE Coalesce(pcbBoard[1][field], dflt)

\* pcbBoard?.center?.<axis> ?? 0
BoardCenter(pcbBoard, axis) ==
  IF pcbBoard = None THEN 0
  ELSE IF pcbBoard[1].center = None THEN 0
  ELSE pcbBoard[1].center[1][axis]

DsnLayer(name, idx) == [layerName |-> name, type |-> "signal", index |-> idx]

\* Variant of TooFewLayers: a single layer is let through.
TooFewLayersBelowOne(numLayers) == numLayers < 1

\* The guard at the head of generateLayers.
TooFewLayers(numLayers) == numLayers < 2

\* The inner-layer loop of generateLayers:
\* for (let i = 1; i < numLayers - 1; i++) push In<i>.Cu with index layerIndex++
RECURSIVE InnerLayersLoop(_, _, _, _)
InnerLayersLoop(i, numLayers, layerIndex, layers) ==
  IF i < numLayers - 1
  THEN InnerLayersLoop(i + 1, numLayers, layerIndex + 1,
         Append(layers, DsnLayer("In" \o ToString(i) \o ".Cu", layerIndex)))
  ELSE [layers |-> layers, layerIndex |-> layerIndex]

\* Variant of generateLayers: the two outer layers only, whatever the count.
generateLayersOuterOnly(numLayers) == <<DsnLayer("F.Cu", 0), DsnLayer("B.Cu", 1)>>

\* generateLayers, for a layer count that passed the guard.
generateLayers(numLayers) ==
  LET inner == InnerLayersLoop(1, numLayers, 1, <<DsnLayer("F.Cu", 0)>>)
  IN Append(inner.layers, DsnLayer("B.Cu", inner.layerIndex))

\* applyToPoint(scale(m), p) for a point held doubled: x' = m * x, y' = m * y.
applyToPoint2(m, p2) == [x |-> (m * p2.x) \div 2, y |-> (m * p2.y) \div 2]

\* Variant of BoardCorners2: the closing point is left out.
BoardCorners2Open(boardWidth, boardHeight, centerX, centerY) ==
  << [x |-> 2 * centerX - boardWidth, y |-> 2 * centerY - boardHeight],
     [x |-> 2 * centerX + boardWidth, y |-> 2 * centerY - boardHeight],
     [x |-> 2 * centerX + boardWidth, y |-> 2 * centerY + boardHeight],
     [x |-> 2 * centerX - boardWidth, y |-> 2 * centerY + boardHeight] >>

\* The five corner points in source space, doubled: centre -/+ half extent.
BoardCorners2(boardWidth, boardHeight, centerX, centerY) ==
  LET cx2 == 2 * centerX
      cy2 == 2 * centerY
      halfWidth2 == boardWidth
      halfHeight2 == boardHeight
  IN << [x |-> cx2 - halfWidth2, y |-> cy2 - halfHeight2],
        [x |-> cx2 + halfWidth2, y |-> cy2 - halfHeight2],
        [x |-> cx2 + halfWidth2, y |-> cy2 + halfHeight2],
        [x |-> cx2 - halfWidth2, y |-> cy2 + halfHeight2],
        [x |-> cx2 - halfWidth2, y |-> cy2 - halfHeight2] >>

\* The loop that transforms every corner and pushes x then y.
RECURSIVE TransformCorners(_, _, _)
TransformCorners(m, corners, coordinates) ==
  IF corners = <<>> THEN coordinates
  ELSE LET transformed == applyToPoint2(m, Head(corners))
       IN TransformCorners(m, Tail(corners),
                           coordinates \o <<transformed.x, transformed.y>>)

\* The boundary the stage assigns: one DsnPath inside a DsnBoundary.
BoardBoundary(m, pcbBoard) ==
  LET boardWidth == BoardField(pcbBoard, "width", DEFAULT_BOARD_SIZE)
      boardHeight == BoardField(pcbBoard, "height", DEFAULT_BOARD_SIZE)
      centerX == BoardCenter(pcbBoard, "x")
      centerY == BoardCenter(pcbBoard, "y")
      corners == BoardCorners2(boardWidth, boardHeight, centerX, centerY)
  IN [paths |-> << [layer |-> "pcb", width |-> 0,
                    coordinates |-> TransformCorners(m, corners, <<>>)] >>]

DsnClearance(value, type) == [token |-> "clearance", value |-> value, type |-> type]

\* Variant of DesignRules: the two typed clearances change places.
DesignRulesSwapped ==
  << [otherChildren |->
        << [token |-> "width", value |-> TRACE_WIDTH_VALUE, type |-> None],
           DsnClearance(CLEARANCE_VALUE, None),
           DsnClearance(CLEARANCE_VALUE_SMD_SMD, Some("smd_smd")),
           DsnClearance(CLEARANCE_VALUE, Some("default_smd")) >>] >>

\* rule.otherChildren = [width, ...clearances]; structure.rules = [rule]
DesignRules ==
  << [otherChildren |->
        << [token |-> "width", value |-> TRACE_WIDTH_VALUE, type |-> None],
           DsnClearance(CLEARANCE_VALUE, None),
           DsnClearance(CLEARANCE_VALUE, Some("default_smd")),
           DsnClearance(CLEARANCE_VALUE_SMD_SMD, Some("smd_smd")) >>] >>

\* The fault AddStructureStage._step raises, "none" when it runs through.
AddStructureStageFault(doc, tm, cj) ==
  IF ~doc.exists THEN "SpectraDsn instance not initialized in context"
  ELSE IF ~doc.sections THEN "DsnStructure not initialized in SpectraDsn"
  ELSE IF tm = None THEN "Transform matrix not initialized in context"
  ELSE IF TooFewLayers(BoardField(FirstBoard(cj), "num_layers", DEFAULT_NUM_LAYERS))
       THEN "PCB must have at least 2 layers"
  ELSE "none"

\* The document AddStructureStage._step leaves behind.  Every fault is
\* raised before the first assignment to the structure section.
AddStructureStageDoc(doc, tm, cj) ==
  IF AddStructureStageFault(doc, tm, cj) # "none" THEN doc
  ELSE LET pcbBoard == FirstBoard(cj)
           numLayers == BoardField(pcbBoard, "num_layers", DEFAULT_NUM_LAYERS)
       IN [doc EXCEPT !.layers = Some(generateLayers(numLayers)),
                      !.boundary = Some(BoardBoundary(tm[1], pcbBoard)),
                      !.rules = Some(DesignRules)]

\* ------------------------------------------------------------------------
\* Helpers for the record store and for insertion-ordered maps.
\* A Map is a sequence of <<key, value>> pairs in insertion order.

Range(seq) == {seq[i] : i \in DOMAIN seq}

\* list.filter(pred)
RECURSIVE FilterByComponent(_, _)
FilterByComponent(list, componentId) ==
  IF list = <<>> THEN <<>>
  ELSE IF Head(list).pcb_component_id = componentId
       THEN <<Head(list)>> \o FilterByComponent(Tail(list), componentId)
       ELSE FilterByComponent(Tail(list), componentId)

MapHas(m, k) == \E i \in DOMAIN m : m[i][1] = k
MapGet(m, k) == m[CHOOSE i \in DOMAIN m : m[i][1] = k][2]
\* Map.set: replaces the value in place, or appends a new entry.
MapSet(m, k, v) ==
  IF MapHas(m, k)
  THEN [i \in DOMAIN m |-> IF m[i][1] = k THEN <<k, v>> ELSE m[i]]
  ELSE Append(m, <<k, v>>)

\* list.find(p => p[field] === value) : the first match, or None.
RECURSIVE FindBy(_, _, _)
FindBy(list, field, value) ==
  IF list = <<>> THEN None
  ELSE IF Head(list)[field] = value THEN Some(Head(list))
  ELSE FindBy(Tail(list), field, value)

\* ------------------------------------------------------------------------
\* Pin numbering.

\* The strings s of the explored inputs for which Number(s) is not NaN.
\* Number("") is 0, so the empty string counts as numeric.
NumericStrings == {"", "0", "1", "2", "3", "4"}
IsNumericString(s) == s \in NumericStrings

\* port_hints?.find(hint => !Number.isNaN(Number(hint)))
RECURSIVE FindNumericHint(_)
FindNumericHint(hints) ==
  IF hints = <<>> THEN None
  ELSE IF IsNumericString(Head(hints)) THEN Some(Head(hints))
  ELSE FindNumericHint(Tail(hints))

\* A JavaScript string operand of || is falsy when undefined or empty.
Falsy(o) == o = None \/ o = Some("")

\* port_hints?.find(...) || name || "1"
PinNumberOf(sourcePort) ==
  LET hint == IF sourcePort.port_hints = None THEN None
              ELSE FindNumericHint(sourcePort.port_hints[1])
  IN IF ~Falsy(hint) THEN hint[1]
     ELSE IF ~Falsy(sourcePort.name) THEN sourcePort.name[1]
     ELSE "1"

\* The pin id createPinFromSmtPad / createPinFromPlatedHole compute.
LibraryPinId(padOrHole, cj) ==
  IF Falsy(padOrHole.pcb_port_id) THEN "1"
  ELSE LET pcbPort == FindBy(cj.pcb_port, "pcb_port_id", padOrHole.pcb_port_id[1])
       IN IF pcbPort = None THEN "1"
          ELSE LET sourcePort ==
                     FindBy(cj.source_port, "source_port_id", pcbPort[1].source_port_id)
               IN IF sourcePort = None THEN "1" ELSE PinNumberOf(sourcePort[1])

\* ------------------------------------------------------------------------
\* Library stage (AddLibraryStage): units and identifiers.
\* Pad, hole and component lengths and positions are held in half
\* micrometres (value in mm = n / 2000), so that Math.round(v * 1000) is a
\* real rounding.  Untransformed output coordinates (pin and place
\* positions, v * 1000) are held in the same half-micrometre unit.  Polygon
\* points are whole millimetres.

\* Math.round(v * 1000) for v held in half micrometres: floor(n / 2 + 0.5).
RoundUm(n) == (n + 1) \div 2

\* applyToPoint(scale(m), p) for p in half micrometres, result in half
\* micrometres of output space (m = 1000 maps n / 2000 mm to n / 2 um).
applyToPointHu(m, p) == [x |-> (m * p.x) \div 1000, y |-> (m * p.y) \div 1000]

\* applyToPoint(scale(m), p) for a polygon point in whole millimetres.
applyToPointMm(m, p) == [x |-> m * p.x, y |-> m * p.y]

\* component.center?.<axis> ?? 0
ComponentCenter(component, axis) ==
  IF component.center = None THEN 0 ELSE component.center[1][axis]

Dim(w, h) == ToString(w) \o "x" \o ToString(h)

\* The per-pad switch of generateFootprintSignature.
SmtPadDesc(pad) ==
  CASE pad.shape = "circle" -> "c:" \o ToString(RoundUm(2 * pad.radius))
    [] pad.shape \in {"rect", "rotated_rect"} ->
         "r:" \o Dim(RoundUm(pad.width), RoundUm(pad.height))
    [] pad.shape \in {"pill", "rotated_pill"} ->
         "p:" \o Dim(RoundUm(pad.width), RoundUm(pad.height))
    [] OTHER -> "u:" \o pad.shape

\* The per-hole switch of generateFootprintSignature.
PlatedHoleDesc(hole) ==
  CASE hole.shape = "circle" -> "hc:" \o ToString(RoundUm(hole.outer_diameter))
    [] hole.shape \in {"oval", "pill"} ->
         "ho:" \o Dim(RoundUm(hole.outer_width), RoundUm(hole.outer_height))
    [] OTHER -> "hu:" \o hole.shape

\* `${desc}@${relX},${relY}` with the rounded position relative to the centre.
PadInfo(desc, padOrHole, component) ==
  desc \o "@"
       \o ToString(RoundUm(padOrHole.x - ComponentCenter(component, "x"))) \o ","
       \o ToString(RoundUm(padOrHole.y - ComponentCenter(component, "y")))

RECURSIVE SmtPadInfos(_, _)
SmtPadInfos(smtPads, component) ==
  IF smtPads = <<>> THEN <<>>
  ELSE <<PadInfo(SmtPadDesc(Head(smtPads)), Head(smtPads), component)>>
         \o SmtPadInfos(Tail(smtPads), component)

RECURSIVE PlatedHoleInfos(_, _)
PlatedHoleInfos(platedHoles, component) ==
  IF platedHoles = <<>> THEN <<>>
  ELSE <<PadInfo(PlatedHoleDesc(Head(platedHoles)), Head(platedHoles), component)>>
         \o PlatedHoleInfos(Tail(platedHoles), component)

\* Variant of SortAndJoin: the parts are joined in declaration order.
SortAndJoinUnsorted(padInfos) == padInfos

\* padInfos.sort() followed by join("|").  The sorted, joined string is
\* held as the multiset of its parts: part -> number of occurrences.
SortAndJoin(padInfos) ==
  [part \in Range(padInfos) |->
     Cardinality({i \in DOMAIN padInfos : padInfos[i] = part})]

generateFootprintSignature(smtPads, platedHoles, component) ==
  SortAndJoin(SmtPadInfos(smtPads, component)
                \o PlatedHoleInfos(platedHoles, component))

\* Variant of generateFootprintName: the sequence number is left at 0.
generateFootprintNameNoSequence(smtPads, platedHoles, component, counter) ==
  LET width == RoundUm(Coalesce(component.width, 0))
      height == RoundUm(Coalesce(component.height, 0))
      totalPads == Len(smtPads) + Len(platedHoles)
  IN IF width > 0 /\ height > 0
     THEN "footprint_" \o Dim(width, height) \o "_0"
     ELSE "footprint_" \o ToString(totalPads) \o "pin_0"

generateFootprintName(smtPads, platedHoles, component, counter) ==
  LET width == RoundUm(Coalesce(component.width, 0))
      height == RoundUm(Coalesce(component.height, 0))
      totalPads == Len(smtPads) + Len(platedHoles)
  IN IF width > 0 /\ height > 0
     THEN "footprint_" \o Dim(width, height) \o "_" \o ToString(counter)
     ELSE "footprint_" \o ToString(totalPads) \o "pin_" \o ToString(counter)

\* ------------------------------------------------------------------------
\* simpleHash and the polygon padstack id.  Strings that are hashed are
\* held as sequences of character codes; the 32-bit hash is held as a pair
\* of 16-bit halves so that no intermediate value leaves the integer range.

CODE_MINUS == 45
CODE_COMMA == 44
CODE_UNDERSCORE == 95
CODE_ZERO == 48
HALF_WORD == 65536

RECURSIVE DigitCodes(_)
DigitCodes(n) ==
  IF n < 10 THEN <<CODE_ZERO + n>>
  ELSE Append(DigitCodes(n \div 10), CODE_ZERO + (n % 10))

\* The character codes of `${n}` for an integer n.
NumberCodes(n) == IF n < 0 THEN <<CODE_MINUS>> \o DigitCodes(0 - n) ELSE DigitCodes(n)

\* points.map(p => `${p.x},${p.y}`).join("_")
RECURSIVE PointsCodes(_)
PointsCodes(points) ==
  IF points = <<>> THEN <<>>
  ELSE LET first == NumberCodes(Head(points).x) \o <<CODE_COMMA>>
                      \o NumberCodes(Head(points).y)
       IN IF Tail(points) = <<>> THEN first
          ELSE first \o <<CODE_UNDERSCORE>> \o PointsCodes(Tail(points))

\* One round of the loop: hash = ((hash << 5) - hash + char) & 0xffffffff.
HashRound(h, char) ==
  LET lo == h.lo * 31 + char
      hi == h.hi * 31 + (lo \div HALF_WORD)
  IN [hi |-> hi % HALF_WORD, lo |-> lo % HALF_WORD]

RECURSIVE HashLoop(_, _)
HashLoop(h, codes) ==
  IF codes = <<>> THEN h ELSE HashLoop(HashRound(h, Head(codes)), Tail(codes))

\* Math.abs of the signed 32-bit value of h, again as two halves.
HashAbs(h) ==
  IF h.hi < 32768 THEN h
  ELSE IF h.lo = 0 THEN [hi |-> HALF_WORD - h.hi, lo |-> 0]
  ELSE [hi |-> HALF_WORD - 1 - h.hi, lo |-> HALF_WORD - h.lo]

Base36Digits ==
  << "0", "1", "2", "3", "4", "5", "6", "7", "8", "9", "a", "b", "c", "d", "e", "f",
     "g", "h", "i", "j", "k", "l", "m", "n", "o", "p", "q", "r", "s", "t", "u", "v",
     "w", "x", "y", "z" >>

\* value.toString(36) by long division of the two halves.
RECURSIVE ToBase36(_)
ToBase36(h) ==
  LET q1 == h.hi \div 36
      r1 == h.hi % 36
      low == r1 * HALF_WORD + h.lo
      q == [hi |-> q1 + ((low \div 36) \div HALF_WORD), lo |-> (low \div 36) % HALF_WORD]
      digit == Base36Digits[(low % 36) + 1]
  IN IF q.hi = 0 /\ q.lo = 0 THEN digit ELSE ToBase36(q) \o digit

simpleHash(codes) == ToBase36(HashAbs(HashLoop([hi |-> 0, lo |-> 0], codes)))

\* ------------------------------------------------------------------------
\* Library stage: padstacks and pins.

SmtPadShapes == {"circle", "rect", "rotated_rect", "pill", "rotated_pill", "polygon"}
PlatedHoleShapes == {"circle", "oval", "pill", "circular_hole_with_rect_pad"}

\* The switch of ensurePadstackForSmtPad, for a supported shape.
SmtPadstackId(smtPad) ==
  CASE smtPad.shape = "circle" -> "p" \o ToString(RoundUm(2 * smtPad.radius))
    [] smtPad.shape \in {"rect", "rotated_rect"} ->
         "p" \o Dim(RoundUm(smtPad.width), RoundUm(smtPad.height))
    [] smtPad.shape \in {"pill", "rotated_pill"} ->
         "p" \o Dim(RoundUm(smtPad.width), RoundUm(smtPad.height)) \o "_pill"
    [] smtPad.shape = "polygon" -> "p" \o simpleHash(PointsCodes(smtPad.points))

\* The switch of ensurePadstackForPlatedHole, for a supported shape.
PlatedHolePadstackId(platedHole) ==
  CASE platedHole.shape = "circle" ->
         "p" \o ToString(RoundUm(platedHole.outer_diameter)) \o "_hole"
    [] platedHole.shape \in {"oval", "pill"} ->
         "p" \o Dim(RoundUm(platedHole.outer_width), RoundUm(platedHole.outer_height))
             \o "_hole"
    [] platedHole.shape = "circular_hole_with_rect_pad" ->
         "p" \o Dim(RoundUm(platedHole.rect_pad_width),
                    RoundUm(platedHole.rect_pad_height)) \o "_recthole"

\* DsnRect({ x1: -width / 2, y1: -height / 2, x2: width / 2, y2: height / 2 });
\* the corners are held doubled.
RectShape(layerNum, width, height) ==
  [kind |-> "rect", layer |-> layerNum,
   geometry |-> <<0 - width, 0 - height, width, height>>]

CircleShape(layerNum, diameter) ==
  [kind |-> "circle", layer |-> layerNum, geometry |-> <<diameter>>]

RECURSIVE PolygonCoordinates(_, _)
PolygonCoordinates(m, points) ==
  IF points = <<>> THEN <<>>
  ELSE LET transformed == applyToPointMm(m, Head(points))
       IN <<transformed.x, transformed.y>> \o PolygonCoordinates(m, Tail(points))

\* The layer a surface-mount pad occupies: "2" for bottom, "1" otherwise.
SmtPadLayerNum(smtPad) == IF Coalesce(smtPad.layer, "top") = "bottom" THEN "2" ELSE "1"

createPadstackForSmtPad(smtPad, padstackId, m) ==
  LET layerNum == SmtPadLayerNum(smtPad)
      shapes ==
        CASE smtPad.shape = "circle" ->
               <<CircleShape(layerNum, RoundUm(2 * smtPad.radius))>>
          [] smtPad.shape \in {"rect", "rotated_rect", "pill", "rotated_pill"} ->
               <<RectShape(layerNum, RoundUm(smtPad.width), RoundUm(smtPad.height))>>
          [] smtPad.shape = "polygon" ->
               << [kind |-> "polygon", layer |-> layerNum,
                   geometry |-> PolygonCoordinates(m, smtPad.points)] >>
          [] OTHER -> <<>>
  IN [padstackId |-> padstackId, shapes |-> shapes]

\* The shape a plated hole contributes on one layer.
PlatedHoleShapeOn(platedHole, layerNum) ==
  CASE platedHole.shape = "circle" ->
         <<CircleShape(layerNum, RoundUm(platedHole.outer_diameter))>>
    [] platedHole.shape \in {"oval", "pill"} ->
         <<RectShape(layerNum, RoundUm(platedHole.outer_width),
                     RoundUm(platedHole.outer_height))>>
    [] platedHole.shape = "circular_hole_with_rect_pad" ->
         <<RectShape(layerNum, RoundUm(platedHole.rect_pad_width),
                     RoundUm(platedHole.rect_pad_height))>>
    [] OTHER -> <<>>

\* for (const layerNum of ["1", "2"]) ...
createPadstackForPlatedHole(platedHole, padstackId) ==
  [padstackId |-> padstackId,
   shapes |-> PlatedHoleShapeOn(platedHole, "1") \o PlatedHoleShapeOn(platedHole, "2")]

\* createPinFromSmtPad / createPinFromPlatedHole (the two bodies are the same).
createPin(padOrHole, padstackId, component, m, cj) ==
  LET relative == [x |-> padOrHole.x - ComponentCenter(component, "x"),
                   y |-> padOrHole.y - ComponentCenter(component, "y")]
      transformed == applyToPointHu(m, relative)
  IN [padstackId |-> padstackId, pinId |-> LibraryPinId(padOrHole, cj),
      x |-> transformed.x, y |-> transformed.y,
      rotation |-> Coalesce(padOrHole.ccw_rotation, 0)]

\* ------------------------------------------------------------------------
\* Library stage: the per-component loop of _step.
\* The loop state st carries the locals images, padstacks,
\* footprintSignatureToImage and footprintCounter, the context map
\* componentToFootprintName (c2f), the private fields processedPadstacks
\* and footprintSignatureToName, the pins of the image being built and the
\* fault raised so far ("none" while running).

\* Variant of PadstackProcessed: every padstack is taken for a new one.
PadstackProcessedNever(processed, padstackId) == FALSE

\* this.processedPadstacks.has(padstackId)
PadstackProcessed(processed, padstackId) == padstackId \in processed

\* Variant of AddSmtPad: a pad of an unsupported shape is passed over.
AddSmtPadSkipUnsupported(st, smtPad, component, m, cj) ==
  IF smtPad.shape \notin SmtPadShapes THEN st
  ELSE LET padstackId == SmtPadstackId(smtPad)
           ensured ==
             IF padstackId \in st.processed THEN st
             ELSE [st EXCEPT
                     !.padstacks = Append(@, createPadstackForSmtPad(smtPad, padstackId, m)),
                     !.processed = @ \cup {padstackId}]
       IN [ensured EXCEPT
             !.pins = Append(@, createPin(smtPad, padstackId, component, m, cj))]

\* ensurePadstackForSmtPad followed by pins.push(createPinFromSmtPad(...)).
AddSmtPad(st, smtPad, component, m, cj) ==
  IF smtPad.shape \notin SmtPadShapes
  THEN [st EXCEPT !.fault = "Unsupported SMT pad shape: " \o smtPad.shape]
  ELSE LET padstackId == SmtPadstackId(smtPad)
           ensured ==
             IF PadstackProcessed(st.processed, padstackId) THEN st
             ELSE [st EXCEPT
                     !.padstacks = Append(@, createPadstackForSmtPad(smtPad, padstackId, m)),
                     !.processed = @ \cup {padstackId}]
       IN [ensured EXCEPT
             !.pins = Append(@, createPin(smtPad, padstackId, component, m, cj))]

\* ensurePadstackForPlatedHole followed by pins.push(createPinFromPlatedHole(...)).
AddPlatedHole(st, platedHole, component, m, cj) ==
  IF platedHole.shape \notin PlatedHoleShapes
  THEN [st EXCEPT !.fault = "Unsupported plated hole shape: " \o platedHole.shape]
  ELSE LET padstackId == PlatedHolePadstackId(platedHole)
           ensured ==
             IF PadstackProcessed(st.processed, padstackId) THEN st
             ELSE [st EXCEPT
                     !.padstacks = Append(@, createPadstackForPlatedHole(platedHole, padstackId)),
                     !.processed = @ \cup {padstackId}]
       IN [ensured EXCEPT
             !.pins = Append(@, createPin(platedHole, padstackId, component, m, cj))]

RECURSIVE SmtPadsLoop(_, _, _, _, _)
SmtPadsLoop(st, smtPads, component, m, cj) ==
  IF smtPads = <<>> \/ st.fault # "none" THEN st
  ELSE SmtPadsLoop(AddSmtPad(st, Head(smtPads), component, m, cj),
                   Tail(smtPads), component, m, cj)

RECURSIVE PlatedHolesLoop(_, _, _, _, _)
PlatedHolesLoop(st, platedHoles, component, m, cj) ==
  IF platedHoles = <<>> \/ st.fault # "none" THEN st
  ELSE PlatedHolesLoop(AddPlatedHole(st, Head(platedHoles), component, m, cj),
                       Tail(platedHoles), component, m, cj)

\* Variant of NoPadsOrHoles: only the surface-mount pads are looked at.
NoPadsOrHolesPadsOnly(smtPads, platedHoles) == smtPads = <<>>

\* smtPads.length === 0 && platedHoles.length === 0
NoPadsOrHoles(smtPads, platedHoles) == smtPads = <<>> /\ platedHoles = <<>>

\* One round of `for (const pcbComponent of pcbComponents)`.
ProcessComponent(st, pcbComponent, m, cj) ==
  LET componentId == pcbComponent.pcb_component_id
      smtPads == FilterByComponent(cj.pcb_smtpad, componentId)
      platedHoles == FilterByComponent(cj.pcb_plated_hole, componentId)
      signature == generateFootprintSignature(smtPads, platedHoles, pcbComponent)
  IN IF NoPadsOrHoles(smtPads, platedHoles) THEN st
     ELSE IF MapHas(st.sigToImage, signature)
     THEN [st EXCEPT !.c2f = MapSet(@, componentId, MapGet(st.sigToImage, signature))]
     ELSE LET withPads == SmtPadsLoop([st EXCEPT !.pins = <<>>], smtPads,
                                      pcbComponent, m, cj)
              withPins == PlatedHolesLoop(withPads, platedHoles, pcbComponent, m, cj)
              footprintName == generateFootprintName(smtPads, platedHoles,
                                                     pcbComponent, st.footprintCounter)
          IN IF withPins.fault # "none" THEN withPins
             ELSE [withPins EXCEPT
                     !.footprintCounter = @ + 1,
                     !.images = Append(@, [imageId |-> footprintName,
                                           pins |-> withPins.pins]),
                     !.sigToImage = MapSet(@, signature, footprintName),
                     !.sigToName = MapSet(@, signature, footprintName),
                     !.c2f = MapSet(@, componentId, footprintName)]

RECURSIVE ComponentsLoop(_, _, _, _)
ComponentsLoop(st, pcbComponents, m, cj) ==
  IF pcbComponents = <<>> \/ st.fault # "none" THEN st
  ELSE ComponentsLoop(ProcessComponent(st, Head(pcbComponents), m, cj),
                      Tail(pcbComponents), m, cj)

\* The fault the three guards at the head of a stage's _step raise.
ContextFault(doc, tm, section) ==
  IF ~doc.exists THEN "SpectraDsn instance not initialized in context"
  ELSE IF ~doc.sections THEN section \o " not initialized in SpectraDsn"
  ELSE IF tm = None THEN "Transform matrix not initialized in context"
  ELSE "none"

\* The body of AddLibraryStage._step after its guards: the final loop state.
AddLibraryStageRun(tm, cj, processed, sigToName) ==
  ComponentsLoop([images |-> <<>>, padstacks |-> <<>>, sigToImage |-> <<>>,
                  footprintCounter |-> 0, c2f |-> <<>>, processed |-> processed,
                  sigToName |-> sigToName, pins |-> <<>>, fault |-> "none"],
                 cj.pcb_component, tm[1], cj)

\* ------------------------------------------------------------------------
\* Placement stage (AddPlacementStage).

MISSING_FOOTPRINT_MAP ==
  "componentToFootprintName not initialized in context (AddLibraryStage must run first)"

AddPlacementStageFault(doc, tm, c2f) ==
  IF ContextFault(doc, tm, "DsnPlacement") # "none"
  THEN ContextFault(doc, tm, "DsnPlacement")
  ELSE IF c2f = None THEN MISSING_FOOTPRINT_MAP
  ELSE "none"

DsnPlace(pcbComponent, m) ==
  LET transformed == applyToPointHu(m, [x |-> ComponentCenter(pcbComponent, "x"),
                                        y |-> ComponentCenter(pcbComponent, "y")])
  IN [componentRef |-> pcbComponent.pcb_component_id,
      x |-> transformed.x, y |-> transformed.y,
      side |-> IF Coalesce(pcbComponent.layer, "top") = "bottom" THEN "back" ELSE "front",
      rotation |-> Coalesce(pcbComponent.rotation, 0)]

\* The loop that fills footprintToPlaces (footprint name -> places).
RECURSIVE PlacesLoop(_, _, _, _)
PlacesLoop(footprintToPlaces, pcbComponents, c2f, m) ==
  IF pcbComponents = <<>> THEN footprintToPlaces
  ELSE LET pcbComponent == Head(pcbComponents)
           componentId == pcbComponent.pcb_component_id
       IN IF ~MapHas(c2f, componentId) \/ MapGet(c2f, componentId) = ""
          THEN PlacesLoop(footprintToPlaces, Tail(pcbComponents), c2f, m)
          ELSE LET footprintName == MapGet(c2f, componentId)
                   places == IF MapHas(footprintToPlaces, footprintName)
                             THEN MapGet(footprintToPlaces, footprintName) ELSE <<>>
               IN PlacesLoop(MapSet(footprintToPlaces, footprintName,
                                    Append(places, DsnPlace(pcbComponent, m))),
                             Tail(pcbComponents), c2f, m)

\* Variant of PlacementComponents: one entry per placed component.
PlacementComponentsPerInstance(cj, c2f, m) ==
  LET placed == SelectSeq(cj.pcb_component,
                          LAMBDA c : MapHas(c2f, c.pcb_component_id))
  IN [i \in DOMAIN placed |->
        [imageId |-> MapGet(c2f, placed[i].pcb_component_id),
         places |-> <<DsnPlace(placed[i], m)>>]]

\* One DsnComponent per entry of footprintToPlaces, in insertion order.
PlacementComponents(cj, c2f, m) ==
  LET footprintToPlaces == PlacesLoop(<<>>, cj.pcb_component, c2f, m)
  IN [i \in DOMAIN footprintToPlaces |->
        [imageId |-> footprintToPlaces[i][1], places |-> footprintToPlaces[i][2]]]

\* ------------------------------------------------------------------------
\* Network stage (AddNetworkStage).

AddNetworkStageFault(doc) ==
  IF ~doc.exists THEN "SpectraDsn instance not initialized in context"
  ELSE IF ~doc.sections THEN "DsnNetwork not initialized in SpectraDsn"
  ELSE "none"

\* source_component_id -> pcb_component_id
RECURSIVE SourceCompToPcbComp(_, _)
SourceCompToPcbComp(map, pcbComponents) ==
  IF pcbComponents = <<>> THEN map
  ELSE LET pcbComp == Head(pcbComponents)
       IN SourceCompToPcbComp(
            IF Falsy(pcbComp.source_component_id) THEN map
            ELSE MapSet(map, pcbComp.source_component_id[1], pcbComp.pcb_component_id),
            Tail(pcbComponents))

\* The pin number the Network stage computes for a source port:
\* port_hints?.find(hint => !Number.isNaN(Number(hint))) || name || "1"
NetworkPinNumber(sourcePort) ==
  LET hint == IF sourcePort.port_hints = None THEN None
              ELSE FindNumericHint(sourcePort.port_hints[1])
  IN IF ~Falsy(hint) THEN hint[1]
     ELSE IF ~Falsy(sourcePort.name) THEN sourcePort.name[1]
     ELSE "1"

\* One round of the pad loop and of the hole loop (the two bodies are the same).
IndexPad(map, padOrHole, compMap, cj) ==
  IF Falsy(padOrHole.pcb_port_id) THEN map
  ELSE LET pcbPort == FindBy(cj.pcb_port, "pcb_port_id", padOrHole.pcb_port_id[1])
       IN IF pcbPort = None THEN map
          ELSE LET sourcePort ==
                     FindBy(cj.source_port, "source_port_id", pcbPort[1].source_port_id)
               IN IF sourcePort = None THEN map
                  ELSE IF Falsy(sourcePort[1].source_component_id) THEN map
                  ELSE IF ~MapHas(compMap, sourcePort[1].source_component_id[1]) THEN map
                  ELSE MapSet(map, sourcePort[1].source_port_id,
                         [pcbComponentId |->
                            MapGet(compMap, sourcePort[1].source_component_id[1]),
                          pinNumber |-> NetworkPinNumber(sourcePort[1]),
                          sourcePortId |-> sourcePort[1].source_port_id])

RECURSIVE IndexPads(_, _, _, _)
IndexPads(map, padsOrHoles, compMap, cj) ==
  IF padsOrHoles = <<>> THEN map
  ELSE IndexPads(IndexPad(map, Head(padsOrHoles), compMap, cj),
                 Tail(padsOrHoles), compMap, cj)

\* padsBySourcePortId: surface-mount pads first, plated holes second.
PadsBySourcePortId(cj) ==
  LET compMap == SourceCompToPcbComp(<<>>, cj.pcb_component)
  IN IndexPads(IndexPads(<<>>, cj.pcb_smtpad, compMap, cj),
               cj.pcb_plated_hole, compMap, cj)

PinRef(padInfo) == padInfo.pcbComponentId \o "-" \o padInfo.pinNumber

\* Variant of SetAdd: the reference is appended even when it is present.
SetAddNoDedup(pins, ref) == Append(pins, ref)

\* Set.add on an insertion-ordered set of pin references.
SetAdd(pins, ref) == IF ref \in Range(pins) THEN pins ELSE Append(pins, ref)

\* for (const portId of ports) add the pin of every port that resolves.
RECURSIVE AddPorts(_, _, _)
AddPorts(pins, ports, padMap) ==
  IF ports = <<>> THEN pins
  ELSE AddPorts(IF MapHas(padMap, Head(ports))
                THEN SetAdd(pins, PinRef(MapGet(padMap, Head(ports)))) ELSE pins,
                Tail(ports), padMap)

\* trace.connected_source_port_ids || []
ConnectedPorts(trace) == Coalesce(trace.connected_source_port_ids, <<>>)

\* netMap.has(name) ? netMap.get(name) : new Set()
NetPins(netMap, netName) == IF MapHas(netMap, netName) THEN MapGet(netMap, netName) ELSE <<>>

\* Variant of HasFirstPad: a trace of one port is taken as well.
HasFirstPadOnePort(connectedPorts, padMap) ==
  /\ Len(connectedPorts) >= 1
  /\ connectedPorts[1] # ""
  /\ MapHas(padMap, connectedPorts[1])

\* connectedPorts.length >= 2 && connectedPorts[0], and firstPad is defined.
HasFirstPad(connectedPorts, padMap) ==
  /\ Len(connectedPorts) >= 2
  /\ connectedPorts[1] # ""
  /\ MapHas(padMap, connectedPorts[1])

\* The first pass: nets from direct trace connectivity.
RECURSIVE TraceNets(_, _, _)
TraceNets(netMap, traces, padMap) ==
  IF traces = <<>> THEN netMap
  ELSE LET connectedPorts == ConnectedPorts(Head(traces))
           anchored == HasFirstPad(connectedPorts, padMap)
           netName == "Net-(" \o MapGet(padMap, connectedPorts[1]).pcbComponentId
                        \o "-Pad" \o MapGet(padMap, connectedPorts[1]).pinNumber \o ")"
       IN TraceNets(IF anchored
                    THEN MapSet(netMap, netName,
                                AddPorts(NetPins(netMap, netName), connectedPorts, padMap))
                    ELSE netMap,
                    Tail(traces), padMap)

\* The ports of every trace that lists the net, in trace order.
RECURSIVE PortsOfNet(_, _)
PortsOfNet(traces, sourceNetId) ==
  IF traces = <<>> THEN <<>>
  ELSE (IF /\ Head(traces).connected_source_net_ids # None
           /\ sourceNetId \in Range(Head(traces).connected_source_net_ids[1])
        THEN ConnectedPorts(Head(traces)) ELSE <<>>)
       \o PortsOfNet(Tail(traces), sourceNetId)

\* The second pass: named source nets.
RECURSIVE SourceNets(_, _, _, _)
SourceNets(netMap, sourceNets, traces, padMap) ==
  IF sourceNets = <<>> THEN netMap
  ELSE LET sourceNet == Head(sourceNets)
           netName == sourceNet.name \o "_" \o sourceNet.source_net_id
       IN SourceNets(MapSet(netMap, netName,
                            AddPorts(NetPins(netMap, netName),
                                     PortsOfNet(traces, sourceNet.source_net_id), padMap)),
                     Tail(sourceNets), traces, padMap)

\* Variant of HasNoPins: no entry is taken for empty.
HasNoPinsNever(pins) == FALSE

\* pins.size === 0
HasNoPins(pins) == pins = <<>>

\* One DsnNet per entry of netMap that has pins.
RECURSIVE EmitNets(_)
EmitNets(netMap) ==
  IF netMap = <<>> THEN <<>>
  ELSE (IF HasNoPins(Head(netMap)[2]) THEN <<>>
        ELSE << [netName |-> Head(netMap)[1], pinRefs |-> Head(netMap)[2]] >>)
       \o EmitNets(Tail(netMap))

NetworkNets(cj) ==
  LET padMap == PadsBySourcePortId(cj)
  IN EmitNets(SourceNets(TraceNets(<<>>, cj.source_trace, padMap),
                         cj.source_net, cj.source_trace, padMap))

\* ------------------------------------------------------------------------
\* The _step bodies.  Each sets fault' to the message it throws ("none" when
\* it returns) and leaves every assignment made before the throw in place.

Finish(stage) == stageFinished' = [stageFinished EXCEPT ![stage] = TRUE]

\* InitializeDsnStage._step
InitializeDsnStageStep ==
  /\ spectraDsn' = InitializedDsn
  /\ Finish(INITIALIZE)
  /\ fault' = "none"
  /\ UNCHANGED <<componentToFootprintName, viaPadstackName, processedPadstacks,
                 footprintSignatureToName>>

\* AddStructureStage._step
AddStructureStageStep ==
  /\ fault' = AddStructureStageFault(spectraDsn, transformMatrix, circuitJson)
  /\ spectraDsn' = AddStructureStageDoc(spectraDsn, transformMatrix, circuitJson)
  /\ IF fault' = "none" THEN Finish(STRUCTURE) ELSE UNCHANGED stageFinished
  /\ UNCHANGED <<componentToFootprintName, viaPadstackName, processedPadstacks,
                 footprintSignatureToName>>

\* AddLibraryStage._step
AddLibraryStageStep ==
  IF ContextFault(spectraDsn, transformMatrix, "DsnLibrary") # "none"
  THEN /\ fault' = ContextFault(spectraDsn, transformMatrix, "DsnLibrary")
       /\ UNCHANGED <<spectraDsn, stageFinished, componentToFootprintName,
                      viaPadstackName, processedPadstacks, footprintSignatureToName>>
  ELSE LET run == AddLibraryStageRun(transformMatrix, circuitJson,
                                     processedPadstacks, footprintSignatureToName)
       IN /\ fault' = run.fault
          /\ componentToFootprintName' = Some(run.c2f)
          /\ processedPadstacks' = run.processed
          /\ footprintSignatureToName' = run.sigToName
          /\ IF run.fault = "none"
             THEN /\ spectraDsn' = [spectraDsn EXCEPT !.images = Some(run.images),
                                                      !.padstacks = Some(run.padstacks)]
                  /\ Finish(LIBRARY)
             ELSE UNCHANGED <<spectraDsn, stageFinished>>
          /\ UNCHANGED viaPadstackName

\* Variant of AddPlacementStageStep: a footprint map that was never set is
\* taken for an empty one.
AddPlacementStageStepEmptyMap ==
  /\ fault' = ContextFault(spectraDsn, transformMatrix, "DsnPlacement")
  /\ IF fault' = "none"
     THEN /\ spectraDsn' =
               [spectraDsn EXCEPT !.components =
                  Some(PlacementComponents(circuitJson,
                                           Coalesce(componentToFootprintName, <<>>),
                                           transformMatrix[1]))]
          /\ Finish(PLACEMENT)
     ELSE UNCHANGED <<spectraDsn, stageFinished>>
  /\ UNCHANGED <<componentToFootprintName, viaPadstackName, processedPadstacks,
                 footprintSignatureToName>>

\* AddPlacementStage._step
AddPlacementStageStep ==
  /\ fault' = AddPlacementStageFault(spectraDsn, transformMatrix, componentToFootprintName)
  /\ IF fault' = "none"
     THEN /\ spectraDsn' =
               [spectraDsn EXCEPT !.components =
                  Some(PlacementComponents(circuitJson, componentToFootprintName[1],
                                           transformMatrix[1]))]
          /\ Finish(PLACEMENT)
     ELSE UNCHANGED <<spectraDsn, stageFinished>>
  /\ UNCHANGED <<componentToFootprintName, viaPadstackName, processedPadstacks,
                 footprintSignatureToName>>

\* Variant of AddNetworkStageStep: the stage also empties placement.components.
AddNetworkStageStepClearsPlacement ==
  /\ fault' = AddNetworkStageFault(spectraDsn)
  /\ IF fault' = "none"
     THEN /\ spectraDsn' = [spectraDsn EXCEPT !.nets = Some(NetworkNets(circuitJson)),
                                              !.components = Some(<<>>)]
          /\ Finish(NETWORK)
     ELSE UNCHANGED <<spectraDsn, stageFinished>>
  /\ UNCHANGED <<componentToFootprintName, viaPadstackName, processedPadstacks,
                 footprintSignatureToName>>

\* AddNetworkStage._step
AddNetworkStageStep ==
  /\ fault' = AddNetworkStageFault(spectraDsn)
  /\ IF fault' = "none"
     THEN /\ spectraDsn' = [spectraDsn EXCEPT !.nets = Some(NetworkNets(circuitJson))]
          /\ Finish(NETWORK)
     ELSE UNCHANGED <<spectraDsn, stageFinished>>
  /\ UNCHANGED <<componentToFootprintName, viaPadstackName, processedPadstacks,
                 footprintSignatureToName>>

\* A _step that returns without setting finished (a stage that needs more
\* steps than it is ever given).
UnfinishedStep ==
  /\ fault' = "none"
  /\ UNCHANGED <<spectraDsn, stageFinished, componentToFootprintName, viaPadstackName,
                 processedPadstacks, footprintSignatureToName>>

\* this._step(), dispatched on the stage's class.
StageBody(stage) ==
  IF stage = stuckStage THEN UnfinishedStep
  ELSE CASE stage = INITIALIZE -> InitializeDsnStageStep
         [] stage = STRUCTURE -> AddStructureStageStep
         [] stage = LIBRARY -> AddLibraryStageStep
         [] stage = PLACEMENT -> AddPlacementStageStep
         [] stage = NETWORK -> AddNetworkStageStep

\* Variant of CeilingReached: the ceiling is tested one call late.
CeilingReachedLate(count) == count > MAX_ITERATIONS + 1

\* The guard of ConverterStage.step: the incremented counter is above the ceiling.
CeilingReached(count) == count > MAX_ITERATIONS

\* ConverterStage.step
ConverterStageStep(stage) ==
  /\ iteration' = [iteration EXCEPT ![stage] = @ + 1]
  /\ IF CeilingReached(iteration'[stage])
     THEN /\ fault' = "Max iterations reached"
          /\ UNCHANGED <<spectraDsn, stageFinished, stepCalls, componentToFootprintName,
                         viaPadstackName, processedPadstacks, footprintSignatureToName>>
     ELSE /\ stepCalls' = [stepCalls EXCEPT ![stage] = @ + 1]
          /\ StageBody(stage)

\* Variant of NoCurrentStage: the last stage is taken for the end of the pipeline.
NoCurrentStageEarly(index) == index >= PipelineLen - 1

\* The guard of CircuitJsonToDsnConverter.step: pipeline[currentStageIndex]
\* is undefined.
NoCurrentStage(index) == index >= PipelineLen

\* Variant of NextStageIndex: the index is never advanced.
NextStageIndexStay(index, stageIsFinished) == index

\* The index after the stage call returned: advanced when the stage is finished.
NextStageIndex(index, stageIsFinished) == IF stageIsFinished THEN index + 1 ELSE index

\* Variant of StepPastLastStage: the driver returns without becoming finished.
StepPastLastStageIdle ==
  /\ fault' = "none"
  /\ UNCHANGED <<finished, currentStageIndex, iteration, stageFinished, stepCalls,
                 spectraDsn, componentToFootprintName, viaPadstackName,
                 processedPadstacks, footprintSignatureToName>>

\* Variant of StepPastLastStage: the driver becomes finished and starts over.
StepPastLastStageRewind ==
  /\ finished' = TRUE
  /\ currentStageIndex' = 0
  /\ fault' = "none"
  /\ UNCHANGED <<iteration, stageFinished, stepCalls, spectraDsn,
                 componentToFootprintName, viaPadstackName, processedPadstacks,
                 footprintSignatureToName>>

\* The first branch of CircuitJsonToDsnConverter.step: there is no current
\* stage, the driver becomes finished and returns.
StepPastLastStage ==
  /\ finished' = TRUE
  /\ fault' = "none"
  /\ UNCHANGED <<currentStageIndex, iteration, stageFinished, stepCalls, spectraDsn,
                 componentToFootprintName, viaPadstackName, processedPadstacks,
                 footprintSignatureToName>>

\* Variant of StepCurrentStage: a fault of the stage is swallowed and the
\* driver moves on to the next stage.
StepCurrentStageCatch ==
  /\ ConverterStageStep(currentStageIndex)
  /\ currentStageIndex' =
       IF fault' # "none" THEN currentStageIndex + 1
       ELSE NextStageIndex(currentStageIndex, stageFinished'[currentStageIndex])
  /\ UNCHANGED finished

\* The second branch: the current stage is stepped; a fault leaves the
\* method at once, otherwise the index advances past a finished stage.
StepCurrentStage ==
  /\ ConverterStageStep(currentStageIndex)
  /\ currentStageIndex' =
       IF fault' # "none" THEN currentStageIndex
       ELSE NextStageIndex(currentStageIndex, stageFinished'[currentStageIndex])
  /\ UNCHANGED finished

\* CircuitJsonToDsnConverter.step
ConverterStep ==
  IF NoCurrentStage(currentStageIndex) THEN StepPastLastStage ELSE StepCurrentStage

\* ------------------------------------------------------------------------
\* Input records.

OptionalOf(S) == {None} \cup {Some(v) : v \in S}

Boards ==
  [num_layers : OptionalOf(0 .. MaxLayers),
   width : OptionalOf(1 .. MaxDim),
   height : OptionalOf(1 .. MaxDim),
   center : OptionalOf([x : (0 - MaxCoord) .. MaxCoord, y : (0 - MaxCoord) .. MaxCoord])]

\* The board lists of the explored inputs: no board record, or one.
BoardLists == {<<>>} \cup {<<b>> : b \in Boards}

PcbComponent(id, sourceId, cx, cy, w, h) ==
  [pcb_component_id |-> id, source_component_id |-> Some(sourceId),
   center |-> Some([x |-> cx, y |-> cy]), width |-> Some(w), height |-> Some(h),
   layer |-> None, rotation |-> None]

SmtPad(componentId, portId, shape, x, y, w, h) ==
  [pcb_component_id |-> componentId, pcb_port_id |-> Some(portId), shape |-> shape,
   x |-> x, y |-> y, radius |-> w, width |-> w, height |-> h, layer |-> Some("top"),
   points |-> <<[x |-> 0, y |-> 0], [x |-> 1, y |-> 0], [x |-> 0, y |-> 1]>>,
   ccw_rotation |-> None]

PlatedHole(componentId, portId, shape, x, y, w, h) ==
  [pcb_component_id |-> componentId, pcb_port_id |-> Some(portId), shape |-> shape,
   x |-> x, y |-> y, outer_diameter |-> w, outer_width |-> w, outer_height |-> h,
   rect_pad_width |-> w, rect_pad_height |-> h, ccw_rotation |-> None]

PcbPort(portId, sourcePortId) == [pcb_port_id |-> portId, source_port_id |-> sourcePortId]

SourcePort(sourcePortId, sourceComponentId, hints, name) ==
  [source_port_id |-> sourcePortId, source_component_id |-> Some(sourceComponentId),
   port_hints |-> Some(hints), name |-> Some(name)]

SourceTrace(ports, netIds) ==
  [connected_source_port_ids |-> Some(ports), connected_source_net_ids |-> Some(netIds)]

SourceNet(id, name) == [source_net_id |-> id, name |-> name]

NoRecords ==
  [pcb_board |-> <<>>, pcb_component |-> <<>>, pcb_smtpad |-> <<>>,
   pcb_plated_hole |-> <<>>, pcb_port |-> <<>>, source_port |-> <<>>,
   source_trace |-> <<>>, source_net |-> <<>>]

\* Two resistors of the same footprint whose first pins are joined by a trace.
TwoResistors ==
  [NoRecords EXCEPT
     !.pcb_component = << PcbComponent("pcb_component_0", "source_component_0", 0, 0, 3120, 1280),
                          PcbComponent("pcb_component_1", "source_component_1", -5120, 0, 3120, 1280) >>,
     !.pcb_smtpad = << SmtPad("pcb_component_0", "pcb_port_0", "rect", -1020, 0, 1080, 1280),
                       SmtPad("pcb_component_0", "pcb_port_1", "rect", 1020, 0, 1080, 1280),
                       SmtPad("pcb_component_1", "pcb_port_3", "rect", -4100, 0, 1080, 1280),
                       SmtPad("pcb_component_1", "pcb_port_2", "rect", -6140, 0, 1080, 1280) >>,
     !.pcb_port = << PcbPort("pcb_port_0", "source_port_0"), PcbPort("pcb_port_1", "source_port_1"),
                     PcbPort("pcb_port_2", "source_port_2"), PcbPort("pcb_port_3", "source_port_3") >>,
     !.source_port = << SourcePort("source_port_0", "source_component_0", <<"anode", "1">>, "pin1"),
                        SourcePort("source_port_1", "source_component_0", <<"2">>, "pin2"),
                        SourcePort("source_port_2", "source_component_1", <<"pos", "1">>, "pin1"),
                        SourcePort("source_port_3", "source_component_1", <<"neg">>, "2") >>,
     !.source_trace = << SourceTrace(<<"source_port_0", "source_port_2">>, <<>>) >> ]

\* A connector with plated holes, a polygon pad on a second part, and a
\* named net that one trace lists.
HolesAndNet ==
  [NoRecords EXCEPT
     !.pcb_component = << PcbComponent("pcb_component_0", "source_component_0", 2000, 2000, 0, 0),
                          PcbComponent("pcb_component_1", "source_component_1", 0, 0, 2001, 2001),
                          PcbComponent("pcb_component_2", "source_component_2", 0, 0, 0, 0) >>,
     !.pcb_plated_hole = << PlatedHole("pcb_component_0", "pcb_port_0", "circle", 0, 2000, 3001, 0),
                            PlatedHole("pcb_component_0", "pcb_port_1", "pill", 4000, 2000, 2000, 3999),
                            PlatedHole("pcb_component_0", "", "circular_hole_with_rect_pad",
                                       2000, 2000, 2000, 2000) >>,
     !.pcb_smtpad = << SmtPad("pcb_component_1", "pcb_port_2", "polygon", 0, 0, 0, 0),
                       SmtPad("pcb_component_1", "pcb_port_9", "circle", 1, 1, 800, 0) >>,
     !.pcb_port = << PcbPort("pcb_port_0", "source_port_0"), PcbPort("pcb_port_1", "source_port_1"),
                     PcbPort("pcb_port_2", "source_port_2") >>,
     !.source_port = << SourcePort("source_port_0", "source_component_0", <<"">>, "GND"),
                        SourcePort("source_port_1", "source_component_0", <<>>, ""),
                        SourcePort("source_port_2", "source_component_1", <<"3">>, "pin3") >>,
     !.source_trace = << SourceTrace(<<"source_port_0", "source_port_2">>, <<"source_net_0">>),
                         SourceTrace(<<"source_port_1">>, <<"source_net_0">>) >>,
     !.source_net = << SourceNet("source_net_0", "GND"), SourceNet("source_net_1", "VCC") >> ]

\* A part one of whose pads has a shape outside the supported set.
UnsupportedPad ==
  [TwoResistors EXCEPT
     !.pcb_smtpad = Append(@, SmtPad("pcb_component_1", "pcb_port_4", "triangle",
                                     -5120, 2000, 1000, 1000))]

Circuits == {NoRecords, TwoResistors, HolesAndNet, UnsupportedPad}

\* ------------------------------------------------------------------------
\* Initial states.

\* The state the constructor of CircuitJsonToDsnConverter leaves behind.
Constructed(cj) ==
  /\ circuitJson = cj
  /\ transformMatrix = Some(CIRCUIT_JSON_TO_DSN_SCALE)
  /\ spectraDsn = NewSpectraDsn("circuit-json-to-dsn")
  /\ componentToFootprintName = None
  /\ viaPadstackName = None
  /\ currentStageIndex = 0
  /\ finished = FALSE
  /\ iteration = [s \in Stages |-> 0]
  /\ stageFinished = [s \in Stages |-> FALSE]
  /\ stepCalls = [s \in Stages |-> 0]
  /\ processedPadstacks = {}
  /\ footprintSignatureToName = <<>>
  /\ caller = [at |-> "idle", stage |-> -1]
  /\ fault = "none"

\* A converter over any explored input; all five stages are the real ones.
Init ==
  /\ \E boards \in BoardLists, circuit \in Circuits :
       Constructed([circuit EXCEPT !.pcb_board = boards])
  /\ stuckStage = -1

\* ------------------------------------------------------------------------
\* The calling code.  caller.at is where the caller stands:
\*   idle                      nothing called yet
\*   stepReturned / stepThrew  a step() call has returned / thrown
\*   runEntered                inside runUntilFinished, no step() made yet
\*   runStepped                inside runUntilFinished, a step() has returned
\*   runReturned / runThrew    runUntilFinished has returned / thrown
\* caller.stage is -1 for calls on the driver and the stage position for
\* calls on a stage object.

Outside == {"idle", "stepReturned", "stepThrew", "runReturned", "runThrew"}
InLoop == {"runEntered", "runStepped"}

OnDriver(at) == [at |-> at, stage |-> -1]

\* The caller gives up on a stage it has stepped MaxRetries times; it keeps
\* stepping a stage that returns unfinished until MaxOver calls past the ceiling.
CallBudget(stage) == IF stage = stuckStage THEN MAX_ITERATIONS + MaxOver ELSE MaxRetries
WithinBudget(stage) == stage \in Stages => iteration[stage] < CallBudget(stage)

Frame == UNCHANGED <<circuitJson, transformMatrix, stuckStage>>

\* converter.step()
Step ==
  /\ caller.at \in Outside
  /\ WithinBudget(currentStageIndex)
  /\ ConverterStep
  /\ caller' = OnDriver(IF fault' = "none" THEN "stepReturned" ELSE "stepThrew")
  /\ Frame

\* converter.runUntilFinished() is entered.
RunStart ==
  /\ caller.at \in Outside
  /\ WithinBudget(currentStageIndex)
  /\ caller' = OnDriver("runEntered")
  /\ fault' = "none"
  /\ UNCHANGED <<currentStageIndex, finished, iteration, stageFinished, stepCalls,
                 spectraDsn, componentToFootprintName, viaPadstackName,
                 processedPadstacks, footprintSignatureToName>>
  /\ Frame

\* while (!this.finished) this.step()
RunLoop ==
  /\ caller.at \in InLoop /\ caller.stage = -1
  /\ ~finished
  /\ ConverterStep
  /\ caller' = OnDriver(IF fault' = "none" THEN "runStepped" ELSE "runThrew")
  /\ Frame

\* The loop condition fails and runUntilFinished returns.
RunReturn ==
  /\ caller.at \in InLoop /\ caller.stage = -1
  /\ finished
  /\ caller' = OnDriver("runReturned")
  /\ UNCHANGED <<fault, currentStageIndex, finished, iteration, stageFinished, stepCalls,
                 spectraDsn, componentToFootprintName, viaPadstackName,
                 processedPadstacks, footprintSignatureToName>>
  /\ Frame

Next == Step \/ RunStart \/ RunLoop \/ RunReturn

Spec == Init /\ [][Next]_vars

\* ------------------------------------------------------------------------
\* Calls made on a stage object itself (converter.pipeline[stage]).

OnStage(at, stage) == [at |-> at, stage |-> stage]

\* stage.step()
StageStep(stage) ==
  /\ stage \in Stages
  /\ caller.at \in Outside
  /\ WithinBudget(stage)
  /\ ConverterStageStep(stage)
  /\ caller' = OnStage(IF fault' = "none" THEN "stepReturned" ELSE "stepThrew", stage)
  /\ UNCHANGED <<currentStageIndex, finished>>
  /\ Frame

\* stage.runUntilFinished() is entered.
StageRunStart(stage) ==
  /\ stage \in Stages
  /\ caller.at \in Outside
  /\ WithinBudget(stage)
  /\ caller' = OnStage("runEntered", stage)
  /\ fault' = "none"
  /\ UNCHANGED <<currentStageIndex, finished, iteration, stageFinished, stepCalls,
                 spectraDsn, componentToFootprintName, viaPadstackName,
                 processedPadstacks, footprintSignatureToName>>
  /\ Frame

\* ConverterStage.runUntilFinished: while (!this.finished) this.step()
StageRunLoop ==
  /\ caller.at \in InLoop /\ caller.stage \in Stages
  /\ ~stageFinished[caller.stage]
  /\ ConverterStageStep(caller.stage)
  /\ caller' = OnStage(IF fault' = "none" THEN "runStepped" ELSE "runThrew", caller.stage)
  /\ UNCHANGED <<currentStageIndex, finished>>
  /\ Frame

\* A converter one of whose stages may be one that never finishes; the
\* caller drives the converter or that stage.
InitCeiling ==
  /\ Constructed(TwoResistors)
  /\ stuckStage \in {-1} \cup Stages

NextCeiling ==
  \/ Step \/ RunStart \/ RunLoop \/ RunReturn
  \/ StageStep(stuckStage) \/ StageRunStart(stuckStage) \/ StageRunLoop

SpecCeiling == InitCeiling /\ [][NextCeiling]_vars

\* ------------------------------------------------------------------------
\* Circuits built from parts.  A layout lists the pads and the holes of a
\* part by their position relative to the part's centre; a circuit places
\* three parts, each with a layout, a centre and a body size, and gives
\* every pad and hole a board port and a source port.

TrianglePoints == <<[x |-> 0, y |-> 0], [x |-> 1, y |-> 0], [x |-> 0, y |-> 1]>>
WidePoints == <<[x |-> 0, y |-> 0], [x |-> 2, y |-> 0], [x |-> 0, y |-> 1]>>

PadTemplate(shape, rx, ry, w, h, layer) ==
  [shape |-> shape, rx |-> rx, ry |-> ry, w |-> w, h |-> h, layer |-> layer,
   points |-> TrianglePoints]

PolygonTemplate(points, rx, ry, layer) ==
  [shape |-> "polygon", rx |-> rx, ry |-> ry, w |-> 0, h |-> 0, layer |-> layer,
   points |-> points]

HoleTemplate(shape, rx, ry, w, h) ==
  [shape |-> shape, rx |-> rx, ry |-> ry, w |-> w, h |-> h]

EmptyLayout == [pads |-> <<>>, holes |-> <<>>]

ChipLayout ==
  [pads |-> << PadTemplate("rect", -1020, 0, 1080, 1280, Some("top")),
               PadTemplate("rect", 1020, 0, 1080, 1280, Some("top")) >>,
   holes |-> <<>>]

\* The pads of ChipLayout declared in the opposite order.
ChipLayoutReversed ==
  [pads |-> << PadTemplate("rect", 1020, 0, 1080, 1280, Some("top")),
               PadTemplate("rect", -1020, 0, 1080, 1280, Some("top")) >>,
   holes |-> <<>>]

\* ChipLayout with pads of another size.
ChipLayoutNarrow ==
  [pads |-> << PadTemplate("rect", -1020, 0, 1080, 1000, Some("top")),
               PadTemplate("rect", 1020, 0, 1080, 1000, Some("top")) >>,
   holes |-> <<>>]

\* ChipLayout with one pad at another position.
ChipLayoutShifted ==
  [pads |-> << PadTemplate("rect", -1020, 0, 1080, 1280, Some("top")),
               PadTemplate("rect", 1020, 500, 1080, 1280, Some("top")) >>,
   holes |-> <<>>]

\* ChipLayout with both pads on the bottom layer.
ChipLayoutBottom ==
  [pads |-> << PadTemplate("rect", -1020, 0, 1080, 1280, Some("bottom")),
               PadTemplate("rect", 1020, 0, 1080, 1280, Some("bottom")) >>,
   holes |-> <<>>]

\* Pads of one shape and size, the first on top and the second at the bottom.
TwoSidedLayout ==
  [pads |-> << PadTemplate("rotated_rect", -2000, 0, 1080, 1280, None),
               PadTemplate("rotated_rect", 2000, 0, 1080, 1280, Some("bottom")) >>,
   holes |-> <<>>]

PolygonLayout ==
  [pads |-> << PolygonTemplate(TrianglePoints, 0, 0, None),
               PadTemplate("circle", 1000, 0, 800, 0, Some("top")) >>,
   holes |-> <<>>]

\* PolygonLayout with a polygon of other points.
PolygonLayoutWide ==
  [pads |-> << PolygonTemplate(WidePoints, 0, 0, None),
               PadTemplate("circle", 1000, 0, 800, 0, Some("top")) >>,
   holes |-> <<>>]

HoleLayout ==
  [pads |-> <<>>,
   holes |-> << HoleTemplate("circle", 0, 2000, 3001, 0),
                HoleTemplate("circular_hole_with_rect_pad", 2000, 0, 2000, 2000) >>]

\* HoleLayout with a larger rectangular pad around the second hole.
HoleLayoutLargePad ==
  [pads |-> <<>>,
   holes |-> << HoleTemplate("circle", 0, 2000, 3001, 0),
                HoleTemplate("circular_hole_with_rect_pad", 2000, 0, 3000, 3000) >>]

MixedLayout ==
  [pads |-> << PadTemplate("pill", -1020, 0, 1080, 1280, Some("top")) >>,
   holes |-> << HoleTemplate("pill", 1020, 0, 2000, 3999) >>]

\* A pad whose shape is outside the supported set.
TrianglePadLayout ==
  [pads |-> << PadTemplate("rect", -1020, 0, 1080, 1280, Some("top")),
               PadTemplate("triangle", 1020, 0, 1000, 1000, Some("top")) >>,
   holes |-> <<>>]

\* A hole whose shape is outside the supported set.
SquareHoleLayout ==
  [pads |-> <<>>,
   holes |-> << HoleTemplate("circle", 0, 2000, 3001, 0),
                HoleTemplate("square", 2000, 0, 2000, 2000) >>]

Layouts ==
  {EmptyLayout, ChipLayout, ChipLayoutReversed, ChipLayoutNarrow, ChipLayoutShifted,
   ChipLayoutBottom, TwoSidedLayout, PolygonLayout, PolygonLayoutWide, HoleLayout,
   HoleLayoutLargePad, MixedLayout, TrianglePadLayout, SquareHoleLayout}

PartId(c) == "pcb_component_" \o ToString(c)
SourcePartId(c) == "source_component_" \o ToString(c)
PortId(c, k) == "pcb_port_" \o ToString(c) \o "_" \o ToString(k)
SourcePortId(c, k) == "source_port_" \o ToString(c) \o "_" \o ToString(k)

PartCenter(part, axis) == IF part.center = None THEN 0 ELSE part.center[1][axis]

\* The pcb_component record of part c.
PartComponent(parts, c) ==
  [pcb_component_id |-> PartId(c), source_component_id |-> Some(SourcePartId(c)),
   center |-> parts[c].center,
   width |-> IF parts[c].size = None THEN None ELSE Some(parts[c].size[1].w),
   height |-> IF parts[c].size = None THEN None ELSE Some(parts[c].size[1].h),
   layer |-> parts[c].layer, rotation |-> None]

\* The pcb_smtpad records of part c: pad k refers to board port (c, k).
PartPads(parts, c) ==
  LET templates == parts[c].layout.pads
  IN [k \in 1 .. Len(templates) |->
        [SmtPad(PartId(c), PortId(c, k), templates[k].shape,
                PartCenter(parts[c], "x") + templates[k].rx,
                PartCenter(parts[c], "y") + templates[k].ry,
                templates[k].w, templates[k].h)
           EXCEPT !.layer = templates[k].layer, !.points = templates[k].points]]

\* The pcb_plated_hole records of part c, numbered after its pads.
PartHoles(parts, c) ==
  LET templates == parts[c].layout.holes
      offset == Len(parts[c].layout.pads)
  IN [k \in 1 .. Len(templates) |->
        PlatedHole(PartId(c), PortId(c, offset + k), templates[k].shape,
                   PartCenter(parts[c], "x") + templates[k].rx,
                   PartCenter(parts[c], "y") + templates[k].ry,
                   templates[k].w, templates[k].h)]

PartPinCount(parts, c) == Len(parts[c].layout.pads) + Len(parts[c].layout.holes)

\* The source_port record of pin k of part c under a naming scheme; under
\* the scheme "mixed" the first part numbers its pins and the others name them.
PartSourcePort(scheme, c, k) ==
  LET base == SourcePort(SourcePortId(c, k), SourcePartId(c),
                         <<"pad", ToString(k)>>, "pin" \o ToString(k))
  IN CASE scheme = "numbered" -> base
       [] scheme = "named" -> [base EXCEPT !.port_hints = None]
       [] scheme = "blank" ->
            IF k = 1 THEN [base EXCEPT !.port_hints = Some(<<"", "2">>)]
            ELSE [base EXCEPT !.port_hints = Some(<<"">>), !.name = Some("")]
       [] scheme = "bare" -> [base EXCEPT !.port_hints = Some(<<>>), !.name = None]
       [] scheme = "mixed" -> IF c = 1 THEN base ELSE [base EXCEPT !.port_hints = None]

\* The board ports of part c; under the scheme "bare" the last pin of a
\* part has no board port record.
PartPcbPorts(parts, scheme, c) ==
  LET n == IF scheme = "bare" /\ PartPinCount(parts, c) > 0
           THEN PartPinCount(parts, c) - 1 ELSE PartPinCount(parts, c)
  IN [k \in 1 .. n |-> PcbPort(PortId(c, k), SourcePortId(c, k))]

PartSourcePorts(parts, scheme, c) ==
  [k \in 1 .. PartPinCount(parts, c) |-> PartSourcePort(scheme, c, k)]

\* One trace between the first pins of parts 1 and 2.
SingleTrace ==
  [traces |-> << SourceTrace(<<SourcePortId(1, 1), SourcePortId(2, 1)>>, <<>>) >>,
   nets |-> <<>>]

\* Two traces that start at the same pin.
SharedAnchorTraces ==
  [traces |-> << SourceTrace(<<SourcePortId(1, 1), SourcePortId(2, 1)>>, <<>>),
                 SourceTrace(<<SourcePortId(1, 1), SourcePortId(3, 1)>>, <<>>) >>,
   nets |-> <<>>]

\* A trace that lists a port twice and belongs to a named net, a trace
\* whose first port is unknown, a trace over three parts, a trace without
\* a port list, and two named nets.
MixedTraces ==
  [traces |-> << SourceTrace(<<SourcePortId(1, 1), SourcePortId(2, 1), SourcePortId(1, 1)>>,
                             <<"source_net_0">>),
                 SourceTrace(<<SourcePortId(9, 9), SourcePortId(1, 2)>>, <<>>),
                 SourceTrace(<<SourcePortId(2, 2), SourcePortId(1, 2), SourcePortId(3, 2)>>,
                             <<>>),
                 [connected_source_port_ids |-> None, connected_source_net_ids |-> None] >>,
   nets |-> << SourceNet("source_net_0", "GND"), SourceNet("source_net_1", "VCC") >>]

\* Traces that belong to named nets: two traces with a known first port,
\* each in a net of its own, a trace whose first port is unknown and that
\* lists a net, a trace of one port, a trace whose first port is unknown
\* and that lists no net, and a trace of unknown ports in a net.  The ids and the names of the first two
\* nets are different and concatenate to the same text.
NamedNetTraces ==
  [traces |-> << SourceTrace(<<SourcePortId(1, 1), SourcePortId(2, 1)>>, <<"0">>),
                 SourceTrace(<<SourcePortId(2, 2), SourcePortId(3, 1)>>, <<"net_0">>),
                 SourceTrace(<<SourcePortId(9, 9), SourcePortId(3, 2)>>,
                             <<"source_net_1">>),
                 SourceTrace(<<SourcePortId(1, 2)>>, <<>>),
                 SourceTrace(<<SourcePortId(9, 9), SourcePortId(1, 2)>>, <<>>),
                 SourceTrace(<<SourcePortId(9, 9), SourcePortId(8, 8)>>,
                             <<"source_net_2">>) >>,
   nets |-> << SourceNet("0", "GND_net"), SourceNet("net_0", "GND"),
               SourceNet("source_net_1", "VCC"), SourceNet("source_net_2", "VCC") >>]

BodySize(w, h) == Some([w |-> w, h |-> h])

\* What a circuit fixes besides the layouts of its first two parts.
PartVariants ==
  { [center |-> Some([x |-> -5120, y |-> 2000]),
     sizes |-> <<BodySize(3120, 1280), BodySize(3120, 1280), BodySize(3120, 1280)>>,
     third |-> ChipLayoutReversed, scheme |-> "numbered", wiring |-> SharedAnchorTraces],
    [center |-> None,
     sizes |-> <<None, BodySize(3120, 1280), None>>,
     third |-> EmptyLayout, scheme |-> "blank", wiring |-> SingleTrace],
    [center |-> Some([x |-> -5120, y |-> 2000]),
     sizes |-> <<BodySize(3120, 1280), BodySize(0, 1280), BodySize(1, 1)>>,
     third |-> ChipLayout, scheme |-> "named", wiring |-> MixedTraces],
    [center |-> Some([x |-> 1, y |-> -1]),
     sizes |-> <<BodySize(0, 0), None, BodySize(3120, 1280)>>,
     third |-> HoleLayout, scheme |-> "bare", wiring |-> SharedAnchorTraces],
    [center |-> Some([x |-> 2000, y |-> 2000]),
     sizes |-> <<BodySize(3120, 1280), BodySize(3120, 1280), BodySize(3120, 1280)>>,
     third |-> ChipLayout, scheme |-> "mixed", wiring |-> NamedNetTraces] }

\* The three parts of a circuit: the first at the origin, the second where
\* the variant puts it (on the bottom side), the third at a fixed place.
PartsOf(first, second, v) ==
  << [layout |-> first, center |-> Some([x |-> 0, y |-> 0]), size |-> v.sizes[1],
      layer |-> None],
     [layout |-> second, center |-> v.center, size |-> v.sizes[2],
      layer |-> Some("bottom")],
     [layout |-> v.third, center |-> Some([x |-> 4000, y |-> -2000]), size |-> v.sizes[3],
      layer |-> Some("top")] >>

PartsCircuit(first, second, v) ==
  LET parts == PartsOf(first, second, v)
  IN [NoRecords EXCEPT
        !.pcb_component = [c \in 1 .. Len(parts) |-> PartComponent(parts, c)],
        !.pcb_smtpad = PartPads(parts, 1) \o PartPads(parts, 2) \o PartPads(parts, 3),
        !.pcb_plated_hole =
           PartHoles(parts, 1) \o PartHoles(parts, 2) \o PartHoles(parts, 3),
        !.pcb_port = PartPcbPorts(parts, v.scheme, 1) \o PartPcbPorts(parts, v.scheme, 2)
                       \o PartPcbPorts(parts, v.scheme, 3),
        !.source_port = PartSourcePorts(parts, v.scheme, 1)
                          \o PartSourcePorts(parts, v.scheme, 2)
                          \o PartSourcePorts(parts, v.scheme, 3),
        !.source_trace = v.wiring.traces,
        !.source_net = v.wiring.nets]

\* A converter over a circuit of parts; all five stages are the real ones.
InitParts ==
  /\ \E first \in Layouts, second \in Layouts, v \in PartVariants :
       Constructed(PartsCircuit(first, second, v))
  /\ stuckStage = -1

\* The caller drives the converter, and may step the Placement stage object
\* itself at any time.
NextParts == Step \/ RunStart \/ RunLoop \/ RunReturn \/ StageStep(PLACEMENT)

SpecParts == InitParts /\ [][NextParts]_vars

\* ------------------------------------------------------------------------
\* The same converters when the caller may also step the Library stage
\* object itself, before, instead of or after the driver's own step of it.

RestepLayouts == {EmptyLayout, ChipLayout, PolygonLayout, HoleLayout, MixedLayout,
                  TrianglePadLayout}

InitRestep ==
  /\ \E first \in RestepLayouts, second \in RestepLayouts, v \in PartVariants :
       Constructed(PartsCircuit(first, second, v))
  /\ stuckStage = -1

NextRestep == Step \/ RunStart \/ RunLoop \/ RunReturn \/ StageStep(LIBRARY)

SpecRestep == InitRestep /\ [][NextRestep]_vars

\* ========================================================================
\* Properties.

StepReturned == caller.at \in {"stepReturned", "runStepped"} /\ caller.stage = -1
Threw == caller.at \in {"stepThrew", "runThrew"}

\* C1: under the driver a stage's _step body runs only while every earlier
\* stage of the pipeline is finished and the stage itself is not, so the
\* bodies run in the order Initialize, Structure, Library, Placement,
\* Network and never again after the stage has finished.
C1_StagesRunInOrder ==
  [][\A s \in Stages :
       stepCalls'[s] # stepCalls[s] =>
         /\ \A e \in Stages : e < s => stageFinished[e]
         /\ ~stageFinished[s]
         /\ \A l \in Stages : l > s => stepCalls[l] = 0]_vars

\* C1 witness: the last stage of the pipeline has run its body.
C1_Witness == stepCalls[NETWORK] = 1 /\ stageFinished[NETWORK]

\* The number of step() calls the driver's loop can still make: the stages
\* not yet passed, and one more call unless the driver is finished.
Rank == (PipelineLen - currentStageIndex) + (IF finished THEN 0 ELSE 1)

\* C2: runUntilFinished terminates unless a stage faults: the loop is left
\* as soon as the driver is finished, and every call of step() inside the
\* loop that returns strictly decreases Rank, which is never negative.
\* When runUntilFinished has returned, the driver is finished, the index
\* equals the pipeline length and every stage is finished after exactly
\* one _step.
C2_RunUntilFinished ==
  /\ [](Rank >= 0)
  /\ [][(caller.at \in InLoop /\ caller'.at = "runStepped") => Rank' < Rank]_vars
  /\ [][(caller.at \in InLoop /\ finished) => caller'.at = "runReturned"]_vars
  /\ [](caller = OnDriver("runReturned") =>
          /\ finished
          /\ currentStageIndex = PipelineLen
          /\ \A s \in Stages :
               stageFinished[s] /\ stepCalls[s] = 1 /\ iteration[s] = 1)

\* C2 witness: runUntilFinished has returned on a circuit with parts.
C2_Witness ==
  /\ caller = OnDriver("runReturned")
  /\ circuitJson.pcb_component # <<>>
  /\ spectraDsn.nets # None

\* C3 as stated: whenever a driver step() has returned with the index past
\* the last stage, the driver is finished.
C3_FinishedWhenIndexPastEnd ==
  (StepReturned /\ currentStageIndex >= PipelineLen) => finished

\* C3 as amended: a driver step() made while the index is already past the
\* last stage leaves the driver finished, and the driver is finished only
\* with the index past the last stage.
C3_FinishedByNextStep ==
  /\ [][(currentStageIndex >= PipelineLen /\ StepReturned') => finished']_vars
  /\ [](finished => currentStageIndex = PipelineLen)

\* C3 witness: a step() made with the index past the last stage has returned.
C3_Witness ==
  /\ caller = OnDriver("stepReturned")
  /\ currentStageIndex = PipelineLen
  /\ finished

\* C4: a stage's _step body runs at most MAX_ITERATIONS times; the call
\* that takes the counter above the ceiling raises "Max iterations
\* reached" and does not run the body.
C4_IterationCeiling ==
  /\ [](\A s \in Stages :
          /\ stepCalls[s] <= MAX_ITERATIONS
          /\ (iteration[s] <= MAX_ITERATIONS => stepCalls[s] = iteration[s])
          /\ (iteration[s] > MAX_ITERATIONS => stepCalls[s] = MAX_ITERATIONS))
  /\ [][\A s \in Stages :
          (iteration'[s] # iteration[s] /\ iteration'[s] > MAX_ITERATIONS) =>
            /\ fault' = "Max iterations reached"
            /\ Threw'
            /\ stepCalls' = stepCalls
            /\ stageFinished' = stageFinished]_vars

\* C4 witness: the driver's runUntilFinished was stopped by the ceiling of a
\* stage that never finishes, after 1000 runs of its body.
C4_Witness ==
  /\ caller = OnDriver("runThrew")
  /\ stuckStage \in Stages
  /\ iteration[stuckStage] = MAX_ITERATIONS + 1
  /\ stepCalls[stuckStage] = MAX_ITERATIONS
  /\ fault = "Max iterations reached"

\* The same under the stage's own runUntilFinished.
C4_WitnessStage ==
  /\ caller = OnStage("runThrew", stuckStage)
  /\ iteration[stuckStage] = MAX_ITERATIONS + 1
  /\ stepCalls[stuckStage] = MAX_ITERATIONS

\* C5: a call on the driver in which a stage faults throws to the caller
\* and leaves the driver unfinished, the index on the stage that was
\* stepped, that stage unfinished and every later stage never stepped.
C5_FaultPropagates ==
  [][fault' # "none" =>
       /\ Threw'
       /\ ~finished'
       /\ currentStageIndex \in Stages
       /\ currentStageIndex' = currentStageIndex
       /\ iteration'[currentStageIndex] = iteration[currentStageIndex] + 1
       /\ ~stageFinished'[currentStageIndex]
       /\ \A l \in Stages : l > currentStageIndex => stepCalls'[l] = 0]_vars

\* C5 witness: runUntilFinished was stopped by a fault of the Library stage.
C5_Witness ==
  /\ caller = OnDriver("runThrew")
  /\ fault = "Unsupported SMT pad shape: triangle"
  /\ currentStageIndex = LIBRARY

\* The layer count of the input as the claims state it: 2 when there is no
\* board record or the board carries no layer count.
InputLayerCount ==
  IF circuitJson.pcb_board = <<>> THEN 2
  ELSE IF circuitJson.pcb_board[1].num_layers = None THEN 2
  ELSE circuitJson.pcb_board[1].num_layers[1]

\* C6: once the Structure stage has finished, the input's layer count n is
\* at least 2 and the layers are F.Cu with index 0, In<i>.Cu with index i
\* for i = 1 .. n-2, and B.Cu with index n-1, in this order.
C6_LayerStack ==
  stageFinished[STRUCTURE] =>
    /\ InputLayerCount >= 2
    /\ spectraDsn.layers # None
    /\ LET layers == spectraDsn.layers[1]
           n == InputLayerCount
       IN /\ Len(layers) = n
          /\ layers[1] = [layerName |-> "F.Cu", type |-> "signal", index |-> 0]
          /\ \A i \in 1 .. (n - 2) :
               layers[i + 1] = [layerName |-> "In" \o ToString(i) \o ".Cu",
                                type |-> "signal", index |-> i]
          /\ layers[n] = [layerName |-> "B.Cu", type |-> "signal", index |-> n - 1]

\* C6 witness: the Structure stage has finished on a four-layer board.
C6_Witness ==
  /\ stageFinished[STRUCTURE]
  /\ InputLayerCount = 4
  /\ Len(spectraDsn.layers[1]) = 4

\* C7: a step of the Structure stage on an input whose layer count is
\* below 2 raises the layer-count fault, leaves the stage unfinished and
\* leaves the document as it was.
C7_TooFewLayersFault ==
  [][(stepCalls'[STRUCTURE] # stepCalls[STRUCTURE] /\ InputLayerCount < 2) =>
       /\ fault' = "PCB must have at least 2 layers"
       /\ Threw'
       /\ ~stageFinished'[STRUCTURE]
       /\ spectraDsn' = spectraDsn
       /\ spectraDsn'.layers = None
       /\ spectraDsn'.boundary = None
       /\ spectraDsn'.rules = None]_vars

\* C7 witness: the Structure stage was stepped on a one-layer board and threw.
C7_Witness ==
  /\ InputLayerCount = 1
  /\ stepCalls[STRUCTURE] >= 1
  /\ fault = "PCB must have at least 2 layers"
  /\ currentStageIndex = STRUCTURE

\* The board dimensions and centre of the input as the claims state them.
InputBoard ==
  LET present == circuitJson.pcb_board # <<>>
      board == circuitJson.pcb_board[1]
  IN [W |-> IF present /\ board.width # None THEN board.width[1] ELSE 100,
      H |-> IF present /\ board.height # None THEN board.height[1] ELSE 100,
      cx |-> IF present /\ board.center # None THEN board.center[1].x ELSE 0,
      cy |-> IF present /\ board.center # None THEN board.center[1].y ELSE 0]

\* C8: once the Structure stage has finished, the boundary is one path with
\* layer tag "pcb" and stroke width 0 whose ten numbers are the corners
\* (cx-W/2, cy-H/2), (cx+W/2, cy-H/2), (cx+W/2, cy+H/2), (cx-W/2, cy+H/2)
\* and the first corner again, each coordinate times 1000.
C8_BoundaryPolygon ==
  stageFinished[STRUCTURE] =>
    /\ spectraDsn.boundary # None
    /\ LET b == InputBoard
           left == 1000 * b.cx - 500 * b.W
           right == 1000 * b.cx + 500 * b.W
           top == 1000 * b.cy - 500 * b.H
           bottom == 1000 * b.cy + 500 * b.H
           paths == spectraDsn.boundary[1].paths
       IN /\ Len(paths) = 1
          /\ paths[1].layer = "pcb"
          /\ paths[1].width = 0
          /\ Len(paths[1].coordinates) = 10
          /\ paths[1].coordinates =
               <<left, top, right, top, right, bottom, left, bottom, left, top>>
          /\ SubSeq(paths[1].coordinates, 9, 10) = SubSeq(paths[1].coordinates, 1, 2)

\* C8 witness: the stage has finished on a board that is not square and is
\* centred away from the origin.
C8_Witness ==
  /\ stageFinished[STRUCTURE]
  /\ InputBoard.W = 1 /\ InputBoard.H = 2
  /\ InputBoard.cx = 1 /\ InputBoard.cy = -1
  /\ spectraDsn.boundary[1].paths[1].coordinates[1] = 500

\* The same on an input without a board record: half extent 50000.
C8_WitnessDefault ==
  /\ stageFinished[STRUCTURE]
  /\ circuitJson.pcb_board = <<>>
  /\ spectraDsn.boundary[1].paths[1].coordinates[1] = -50000

\* C9: once the Structure stage has finished there is exactly one rule,
\* whose children are a width 200, a clearance 200 without type, a
\* clearance 200 of type default_smd and a clearance 50 of type smd_smd.
C9_DesignRules ==
  stageFinished[STRUCTURE] =>
    /\ spectraDsn.rules # None
    /\ Len(spectraDsn.rules[1]) = 1
    /\ spectraDsn.rules[1][1].otherChildren =
         << [token |-> "width", value |-> 200, type |-> <<>>],
            [token |-> "clearance", value |-> 200, type |-> <<>>],
            [token |-> "clearance", value |-> 200, type |-> <<"default_smd">>],
            [token |-> "clearance", value |-> 50, type |-> <<"smd_smd">>] >>

\* C9 witness: the stage has finished on an input with a board and parts.
C9_Witness ==
  /\ stageFinished[STRUCTURE]
  /\ circuitJson.pcb_board # <<>>
  /\ circuitJson.pcb_component # <<>>
  /\ spectraDsn.rules # None

VIA_NAME == "Via[0-1]_600:300_um"

\* C10: once the Structure stage has finished the structure section carries
\* the via entry Via[0-1]_600:300_um and the context's viaPadstackName is
\* that name; once the Library stage has finished the library holds a
\* padstack of that name.
C10_ViaPadstack ==
  /\ stageFinished[STRUCTURE] =>
       (spectraDsn.via = Some(VIA_NAME) /\ viaPadstackName = Some(VIA_NAME))
  /\ stageFinished[LIBRARY] =>
       \E i \in DOMAIN spectraDsn.padstacks[1] :
          spectraDsn.padstacks[1][i].padstackId = VIA_NAME

\* Some surface-mount pad or plated hole of the input carries the id.
HasPadOrHole(componentId) ==
  \/ \E i \in DOMAIN circuitJson.pcb_smtpad :
        circuitJson.pcb_smtpad[i].pcb_component_id = componentId
  \/ \E i \in DOMAIN circuitJson.pcb_plated_hole :
        circuitJson.pcb_plated_hole[i].pcb_component_id = componentId

\* C11: once the Library stage has finished, the component-to-footprint
\* map is set, a component has an entry exactly when some pad or hole
\* carries its id, and every key of the map is the id of a component.
C11_FootprintMapDomain ==
  stageFinished[LIBRARY] =>
    /\ componentToFootprintName # None
    /\ \A i \in DOMAIN circuitJson.pcb_component :
         MapHas(componentToFootprintName[1],
                circuitJson.pcb_component[i].pcb_component_id)
           <=> HasPadOrHole(circuitJson.pcb_component[i].pcb_component_id)
    /\ \A j \in DOMAIN componentToFootprintName[1] :
         \E i \in DOMAIN circuitJson.pcb_component :
            circuitJson.pcb_component[i].pcb_component_id =
              componentToFootprintName[1][j][1]

\* C11 witness: the Library stage has finished on a circuit in which one
\* part has neither pads nor holes and is absent from the map, and another
\* has plated holes only and is present.
C11_Witness ==
  /\ stageFinished[LIBRARY]
  /\ \E i \in DOMAIN circuitJson.pcb_component :
        /\ ~HasPadOrHole(circuitJson.pcb_component[i].pcb_component_id)
        /\ ~MapHas(componentToFootprintName[1],
                   circuitJson.pcb_component[i].pcb_component_id)
  /\ \E i \in DOMAIN circuitJson.pcb_component :
        LET id == circuitJson.pcb_component[i].pcb_component_id
        IN /\ FilterByComponent(circuitJson.pcb_smtpad, id) = <<>>
           /\ FilterByComponent(circuitJson.pcb_plated_hole, id) # <<>>
           /\ MapHas(componentToFootprintName[1], id)

\* The geometry of a pad or hole as the claims state it: its kind, its
\* shape class, its size in micrometres (the point list for a polygon) and
\* its position relative to the centre of its component, in micrometres.
PadGeometry(pad, component) ==
  [kind |-> "pad",
   class |-> CASE pad.shape \in {"rect", "rotated_rect"} -> "rect"
               [] pad.shape \in {"pill", "rotated_pill"} -> "pill"
               [] OTHER -> pad.shape,
   size |-> CASE pad.shape = "circle" -> <<RoundUm(2 * pad.radius)>>
              [] pad.shape \in {"rect", "rotated_rect", "pill", "rotated_pill"} ->
                   <<RoundUm(pad.width), RoundUm(pad.height)>>
              [] OTHER -> <<>>,
   points |-> IF pad.shape = "polygon" THEN pad.points ELSE <<>>,
   relX |-> RoundUm(pad.x - ComponentCenter(component, "x")),
   relY |-> RoundUm(pad.y - ComponentCenter(component, "y"))]

HoleGeometry(hole, component) ==
  [kind |-> "hole",
   class |-> IF hole.shape \in {"oval", "pill"} THEN "oval" ELSE hole.shape,
   size |-> CASE hole.shape = "circle" -> <<RoundUm(hole.outer_diameter)>>
              [] hole.shape \in {"oval", "pill"} ->
                   <<RoundUm(hole.outer_width), RoundUm(hole.outer_height)>>
              [] hole.shape = "circular_hole_with_rect_pad" ->
                   <<RoundUm(hole.rect_pad_width), RoundUm(hole.rect_pad_height)>>
              [] OTHER -> <<>>,
   points |-> <<>>,
   relX |-> RoundUm(hole.x - ComponentCenter(component, "x")),
   relY |-> RoundUm(hole.y - ComponentCenter(component, "y"))]

\* The geometries of a component's pads and holes in declaration order.
GeometryList(component) ==
  LET smtPads == FilterByComponent(circuitJson.pcb_smtpad, component.pcb_component_id)
      platedHoles ==
        FilterByComponent(circuitJson.pcb_plated_hole, component.pcb_component_id)
  IN [k \in 1 .. Len(smtPads) |-> PadGeometry(smtPads[k], component)]
       \o [k \in 1 .. Len(platedHoles) |-> HoleGeometry(platedHoles[k], component)]

\* The same without regard to order: geometry -> number of occurrences.
GeometryBag(component) ==
  LET list == GeometryList(component)
  IN [g \in Range(list) |-> Cardinality({k \in DOMAIN list : list[k] = g})]

\* The components of the input that have a pad or a hole.
PartsWithPins ==
  {i \in DOMAIN circuitJson.pcb_component :
     HasPadOrHole(circuitJson.pcb_component[i].pcb_component_id)}

FootprintOf(i) ==
  MapGet(componentToFootprintName[1], circuitJson.pcb_component[i].pcb_component_id)

\* C12: once the Library stage has finished, two components whose pads and
\* holes have the same shape classes, sizes and relative positions, in
\* whatever order they are declared and wherever the components sit, have
\* the same footprint name; exactly one image carries that name, and no
\* padstack id occurs twice in the library.
C12_SameLayoutSameFootprint ==
  stageFinished[LIBRARY] =>
    /\ \A i \in PartsWithPins, j \in PartsWithPins :
         GeometryBag(circuitJson.pcb_component[i]) =
           GeometryBag(circuitJson.pcb_component[j]) =>
             /\ FootprintOf(i) = FootprintOf(j)
             /\ Cardinality({k \in DOMAIN spectraDsn.images[1] :
                               spectraDsn.images[1][k].imageId = FootprintOf(i)}) = 1
    /\ \A k \in DOMAIN spectraDsn.padstacks[1], l \in DOMAIN spectraDsn.padstacks[1] :
         spectraDsn.padstacks[1][k].padstackId = spectraDsn.padstacks[1][l].padstackId
           => k = l

\* C12 witness: the stage has finished on a circuit with two components of
\* the same geometry that sit at different places and declare their pads
\* in different orders, and they share a footprint name.
C12_Witness ==
  /\ stageFinished[LIBRARY]
  /\ \E i \in PartsWithPins, j \in PartsWithPins :
        LET a == circuitJson.pcb_component[i]
            b == circuitJson.pcb_component[j]
        IN /\ i < j
           /\ GeometryBag(a) = GeometryBag(b)
           /\ GeometryList(a) # GeometryList(b)
           /\ a.center # b.center
           /\ FootprintOf(i) = FootprintOf(j)

\* C13: once the Library stage has finished, two components that share a
\* footprint name have the same geometry: whenever they differ in the
\* shape class, the size (the point list of a polygon pad, the pad size of
\* a hole with a rectangular pad) or the relative position of some pad or
\* hole, their footprint names differ.
C13_SharedFootprintSameGeometry ==
  stageFinished[LIBRARY] =>
    \A i \in PartsWithPins, j \in PartsWithPins :
       FootprintOf(i) = FootprintOf(j) =>
         GeometryBag(circuitJson.pcb_component[i]) =
           GeometryBag(circuitJson.pcb_component[j])

\* The component that created the image of a footprint name: the first
\* component of the input that is assigned the name.
CreatorOf(imageId) ==
  circuitJson.pcb_component[
    CHOOSE i \in PartsWithPins :
      /\ FootprintOf(i) = imageId
      /\ \A j \in PartsWithPins : FootprintOf(j) = imageId => i <= j]

\* The width or height of a component in micrometres, 0 when absent.
BodyUm(component, field) ==
  IF component[field] = None THEN 0 ELSE RoundUm(component[field][1])

\* The name the claim gives the k-th footprint created (k counted from 0).
ClaimedFootprintName(component, k) ==
  IF BodyUm(component, "width") > 0 /\ BodyUm(component, "height") > 0
  THEN "footprint_" \o ToString(BodyUm(component, "width")) \o "x"
         \o ToString(BodyUm(component, "height")) \o "_" \o ToString(k)
  ELSE "footprint_" \o ToString(Len(GeometryList(component))) \o "pin_" \o ToString(k)

\* C14: once the Library stage has finished, the i-th image (counted from
\* 0) is named footprint_<width>x<height>_<i> after the component that
\* created it when that component's width and height are positive, else
\* footprint_<pinCount>pin_<i>; there are as many images as footprint
\* names in use, so a reuse does not advance the counter; the image names
\* are pairwise distinct.
C14_FootprintNames ==
  stageFinished[LIBRARY] =>
    LET images == spectraDsn.images[1]
    IN /\ \A k \in DOMAIN images :
            /\ \E i \in PartsWithPins : FootprintOf(i) = images[k].imageId
            /\ images[k].imageId =
                 ClaimedFootprintName(CreatorOf(images[k].imageId), k - 1)
       /\ Len(images) = Cardinality({FootprintOf(i) : i \in PartsWithPins})
       /\ \A k \in DOMAIN images, l \in DOMAIN images :
            images[k].imageId = images[l].imageId => k = l

\* C14 witness: the stage has finished with a footprint named by size and
\* sequence number 0, reused by a second component, followed by a
\* footprint named by pin count with sequence number 1.
C14_Witness ==
  /\ stageFinished[LIBRARY]
  /\ Len(spectraDsn.images[1]) = 2
  /\ spectraDsn.images[1][1].imageId = "footprint_1560x640_0"
  /\ spectraDsn.images[1][2].imageId = "footprint_2pin_1"
  /\ Cardinality(PartsWithPins) = 3

\* The layer number the claim gives a surface-mount pad: 2 for a bottom
\* pad, 1 for a top pad or a pad without a layer.
ClaimedPadLayer(pad) == IF pad.layer = Some("bottom") THEN "2" ELSE "1"

\* The layers on which a padstack has a shape.
ShapeLayers(padstack) == {padstack.shapes[n].layer : n \in DOMAIN padstack.shapes}

\* C15: once the Library stage has finished, every pin of every image
\* refers to a padstack of the library; for a pin made from a
\* surface-mount pad that padstack has shapes on the pad's own layer only,
\* for a pin made from a plated hole it has shapes on layers 1 and 2.
C15_PadstackLayers ==
  stageFinished[LIBRARY] =>
    \A k \in DOMAIN spectraDsn.images[1] :
       LET image == spectraDsn.images[1][k]
           creator == CreatorOf(image.imageId)
           smtPads == FilterByComponent(circuitJson.pcb_smtpad, creator.pcb_component_id)
       IN \A n \in DOMAIN image.pins :
             \E q \in DOMAIN spectraDsn.padstacks[1] :
                /\ spectraDsn.padstacks[1][q].padstackId = image.pins[n].padstackId
                /\ ShapeLayers(spectraDsn.padstacks[1][q]) =
                     IF n <= Len(smtPads) THEN {ClaimedPadLayer(smtPads[n])}
                     ELSE {"1", "2"}

\* The fault messages the claim expects for the input: one for every pad
\* and every hole whose shape is outside the supported set.
UnsupportedShapeFaults ==
  {"Unsupported SMT pad shape: " \o circuitJson.pcb_smtpad[i].shape :
     i \in {n \in DOMAIN circuitJson.pcb_smtpad :
              circuitJson.pcb_smtpad[n].shape \notin
                {"circle", "rect", "rotated_rect", "pill", "rotated_pill", "polygon"}}}
  \cup
  {"Unsupported plated hole shape: " \o circuitJson.pcb_plated_hole[i].shape :
     i \in {n \in DOMAIN circuitJson.pcb_plated_hole :
              circuitJson.pcb_plated_hole[n].shape \notin
                {"circle", "oval", "pill", "circular_hole_with_rect_pad"}}}

\* C16: on an input in which some pad or hole has an unsupported shape,
\* every run of the Library stage's body raises the unsupported-shape
\* fault of such a pad or hole and leaves the document as it was; the
\* stage never becomes finished and the library's images and padstacks
\* are never assigned.
C16_UnsupportedShapeFaults ==
  /\ [](UnsupportedShapeFaults # {} =>
          /\ ~stageFinished[LIBRARY]
          /\ spectraDsn.images = None
          /\ spectraDsn.padstacks = None)
  /\ [][(stepCalls'[LIBRARY] # stepCalls[LIBRARY] /\ UnsupportedShapeFaults # {}) =>
          /\ fault' \in UnsupportedShapeFaults
          /\ Threw'
          /\ spectraDsn' = spectraDsn]_vars

\* C16 witness: the Library stage was stopped by a hole of unsupported
\* shape after it had already built a padstack for an earlier hole.
C16_Witness ==
  /\ fault = "Unsupported plated hole shape: square"
  /\ caller.at \in {"stepThrew", "runThrew"}
  /\ currentStageIndex = LIBRARY
  /\ processedPadstacks # {}
  /\ spectraDsn.padstacks = None

\* The same for an unsupported surface-mount pad.
C16_WitnessPad ==
  /\ fault = "Unsupported SMT pad shape: triangle"
  /\ caller.at \in {"stepThrew", "runThrew"}
  /\ currentStageIndex = LIBRARY
  /\ spectraDsn.images = None

\* The source port a pad or hole resolves to: its board port and that
\* port's source port are both found.  None when it does not resolve.
ResolvedSourcePort(padOrHole) ==
  IF padOrHole.pcb_port_id = None THEN None
  ELSE LET pcbPort == FindBy(circuitJson.pcb_port, "pcb_port_id",
                             padOrHole.pcb_port_id[1])
       IN IF pcbPort = None THEN None
          ELSE FindBy(circuitJson.source_port, "source_port_id",
                      pcbPort[1].source_port_id)

\* The pin number as the claim states it: the first port hint that is a
\* numeral, else the port's name when it has one, else "1".
ClaimedPinNumber(sourcePort) ==
  LET hints == IF sourcePort.port_hints = None THEN <<>> ELSE sourcePort.port_hints[1]
      numerals == {n \in DOMAIN hints : hints[n] \in {"0", "1", "2", "3", "4"}}
  IN IF numerals # {}
     THEN hints[CHOOSE n \in numerals : \A o \in numerals : n <= o]
     ELSE IF sourcePort.name # None /\ sourcePort.name # Some("")
     THEN sourcePort.name[1]
     ELSE "1"

\* The pads followed by the holes of a component, in the order of its pins.
PinSources(component) ==
  FilterByComponent(circuitJson.pcb_smtpad, component.pcb_component_id)
    \o FilterByComponent(circuitJson.pcb_plated_hole, component.pcb_component_id)

\* C17: once the Library and the Network stage have finished, every image
\* pin made from a pad or hole whose port resolves carries the claimed pin
\* number of that port, and the pin number the Network stage holds for a
\* resolved port is that same value.
C17_PinNumbersAgree ==
  (stageFinished[LIBRARY] /\ stageFinished[NETWORK]) =>
    /\ \A k \in DOMAIN spectraDsn.images[1] :
         LET image == spectraDsn.images[1][k]
             sources == PinSources(CreatorOf(image.imageId))
         IN \A n \in DOMAIN image.pins :
               ResolvedSourcePort(sources[n]) # None =>
                 image.pins[n].pinId = ClaimedPinNumber(ResolvedSourcePort(sources[n])[1])
    /\ LET padMap == PadsBySourcePortId(circuitJson)
       IN \A q \in DOMAIN padMap :
             \A i \in DOMAIN circuitJson.source_port :
                circuitJson.source_port[i].source_port_id = padMap[q][1] =>
                  padMap[q][2].pinNumber = ClaimedPinNumber(circuitJson.source_port[i])

\* The agreement alone: the pin id of every image pin whose port resolves
\* equals the pin number the Network stage holds for that port.
PinNumbersSame ==
  (stageFinished[LIBRARY] /\ stageFinished[NETWORK]) =>
    LET padMap == PadsBySourcePortId(circuitJson)
    IN \A k \in DOMAIN spectraDsn.images[1] :
          LET image == spectraDsn.images[1][k]
              sources == PinSources(CreatorOf(image.imageId))
          IN \A n \in DOMAIN image.pins :
                LET port == ResolvedSourcePort(sources[n])
                IN (port # None /\ MapHas(padMap, port[1].source_port_id)) =>
                     image.pins[n].pinId = MapGet(padMap, port[1].source_port_id).pinNumber

\* The components of the input that the footprint map has an entry for.
AssignedParts ==
  {i \in DOMAIN circuitJson.pcb_component :
     MapHas(componentToFootprintName[1], circuitJson.pcb_component[i].pcb_component_id)}

\* The position in the input of the first component assigned a footprint name.
FirstUse(imageId) ==
  CHOOSE i \in AssignedParts :
    /\ FootprintOf(i) = imageId
    /\ \A j \in AssignedParts : FootprintOf(j) = imageId => i <= j

\* The (entry, place) positions of placement.components that refer to a component.
PlacesOf(componentId) ==
  UNION { {<<e, n>> : n \in {o \in DOMAIN spectraDsn.components[1][e].places :
                               spectraDsn.components[1][e].places[o].componentRef
                                 = componentId}} :
          e \in DOMAIN spectraDsn.components[1] }

\* C18: once the Placement stage has finished, placement.components has
\* one entry for every footprint name assigned to some component and no
\* other, no name twice, in the order in which the names are first used;
\* every component with a footprint assignment is one place of the entry
\* of its own footprint and of no other; every place belongs to a
\* component with an assignment.
C18_PlacementGroups ==
  stageFinished[PLACEMENT] =>
    LET components == spectraDsn.components[1]
    IN /\ {components[e].imageId : e \in DOMAIN components} =
            {FootprintOf(i) : i \in AssignedParts}
       /\ \A e \in DOMAIN components, f \in DOMAIN components :
            /\ components[e].imageId = components[f].imageId => e = f
            /\ e < f => FirstUse(components[e].imageId) < FirstUse(components[f].imageId)
       /\ \A i \in AssignedParts :
            LET id == circuitJson.pcb_component[i].pcb_component_id
            IN /\ Cardinality(PlacesOf(id)) = 1
               /\ \A at \in PlacesOf(id) : components[at[1]].imageId = FootprintOf(i)
       /\ \A e \in DOMAIN components :
            \A n \in DOMAIN components[e].places :
               \E i \in AssignedParts :
                  circuitJson.pcb_component[i].pcb_component_id =
                    components[e].places[n].componentRef

\* C18 witness: the stage has finished with two entries, the first listing
\* the first and the third component, the second listing the second.
C18_Witness ==
  /\ stageFinished[PLACEMENT]
  /\ Len(spectraDsn.components[1]) = 2
  /\ Len(spectraDsn.components[1][1].places) = 2
  /\ spectraDsn.components[1][1].places[1].componentRef = "pcb_component_1"
  /\ spectraDsn.components[1][1].places[2].componentRef = "pcb_component_3"
  /\ spectraDsn.components[1][2].places[1].componentRef = "pcb_component_2"

\* The same with a component that has no footprint assignment and no place.
C18_WitnessSkipped ==
  /\ stageFinished[PLACEMENT]
  /\ stageFinished[LIBRARY]
  /\ Cardinality(AssignedParts) = 1
  /\ Len(spectraDsn.components[1]) = 1
  /\ spectraDsn.components[1][1].places[1].componentRef = "pcb_component_2"

\* C19: a run of the Placement stage's body while the footprint map has
\* not been set throws, with the ordering fault when the document has its
\* sections, leaves the stage unfinished and the document as it was; as
\* long as the map is not set the stage is unfinished and
\* placement.components is not assigned.
C19_PlacementBeforeLibrary ==
  /\ [](componentToFootprintName = None =>
          ~stageFinished[PLACEMENT] /\ spectraDsn.components = None)
  /\ [][(stepCalls'[PLACEMENT] # stepCalls[PLACEMENT]
           /\ componentToFootprintName = None) =>
          /\ fault' # "none"
          /\ spectraDsn.sections =>
               fault' = "componentToFootprintName not initialized in context (AddLibraryStage must run first)"
          /\ Threw'
          /\ ~stageFinished'[PLACEMENT]
          /\ spectraDsn' = spectraDsn
          /\ componentToFootprintName' = None]_vars

\* C19 witness: the Placement stage was stepped after the Initialize and
\* the Structure stage but before the Library stage, and threw the
\* ordering fault.
C19_Witness ==
  /\ caller = OnStage("stepThrew", PLACEMENT)
  /\ fault = "componentToFootprintName not initialized in context (AddLibraryStage must run first)"
  /\ stageFinished[STRUCTURE]
  /\ stepCalls[LIBRARY] = 0
  /\ circuitJson.pcb_component # <<>>
  /\ spectraDsn.components = None

\* The port list of a trace, empty when the trace has none.
TracePorts(trace) ==
  IF trace.connected_source_port_ids = None THEN <<>>
  ELSE trace.connected_source_port_ids[1]

\* The source ports that resolve to a known pad or hole.
KnownPorts == {PadsBySourcePortId(circuitJson)[q][1] :
                 q \in DOMAIN PadsBySourcePortId(circuitJson)}

\* The pin reference <componentId>-<pinNumber> of a known port.
PinRefOf(portId) ==
  LET pad == MapGet(PadsBySourcePortId(circuitJson), portId)
  IN pad.pcbComponentId \o "-" \o pad.pinNumber

\* The pin references of the ports of a trace that resolve.
TraceRefs(trace) == {PinRefOf(portId) : portId \in Range(TracePorts(trace)) \cap KnownPorts}

\* The traces with two or more ports whose first port resolves.
AnchoredTraces ==
  {t \in DOMAIN circuitJson.source_trace :
     /\ Len(TracePorts(circuitJson.source_trace[t])) >= 2
     /\ TracePorts(circuitJson.source_trace[t])[1] \in KnownPorts}

\* Net-(<componentId>-Pad<pinNumber>) after the pad of the trace's first port.
TraceNetName(t) ==
  LET pad == MapGet(PadsBySourcePortId(circuitJson),
                    TracePorts(circuitJson.source_trace[t])[1])
  IN "Net-(" \o pad.pcbComponentId \o "-Pad" \o pad.pinNumber \o ")"

\* The emitted nets of a name.
NetsNamed(netName) ==
  {n \in DOMAIN spectraDsn.nets[1] : spectraDsn.nets[1][n].netName = netName}

\* Every trace with two or more ports whose first port resolves has
\* exactly one emitted net of its name; that net lists no pin reference
\* twice and contains the reference of every port of the trace that resolves.
TraceNetsEmitted ==
  \A t \in AnchoredTraces :
     /\ Cardinality(NetsNamed(TraceNetName(t))) = 1
     /\ \A n \in NetsNamed(TraceNetName(t)) :
          LET pinRefs == spectraDsn.nets[1][n].pinRefs
          IN /\ \A a \in DOMAIN pinRefs, b \in DOMAIN pinRefs :
                  pinRefs[a] = pinRefs[b] => a = b
             /\ TraceRefs(circuitJson.source_trace[t]) \subseteq Range(pinRefs)

\* The traces that connect two ports, both resolving to known pads.
TwoPortTraces ==
  {t \in AnchoredTraces :
     /\ Cardinality(Range(TracePorts(circuitJson.source_trace[t]))) = 2
     /\ Range(TracePorts(circuitJson.source_trace[t])) \subseteq KnownPorts}

\* C20 as stated: once the Network stage has finished, every trace with
\* two or more ports whose first port resolves has exactly one net of its
\* name with the references of all its resolving ports, each once, and the
\* net of a trace that connects two resolving ports contains exactly the
\* references of those two ports.
C20_TraceNetExactlyTwo ==
  stageFinished[NETWORK] =>
    /\ TraceNetsEmitted
    /\ \A t \in TwoPortTraces :
         \A n \in NetsNamed(TraceNetName(t)) :
            Range(spectraDsn.nets[1][n].pinRefs) =
              TraceRefs(circuitJson.source_trace[t])

\* C20 as amended: the net of such a trace contains the references of the
\* resolving ports of all the traces that are named after the same first
\* pad and nothing else; so it contains exactly the two references of a
\* two-port trace when no other such trace has the same net name.
C20_TraceNetMerged ==
  stageFinished[NETWORK] =>
    /\ TraceNetsEmitted
    /\ \A t \in AnchoredTraces :
         \A n \in NetsNamed(TraceNetName(t)) :
            Range(spectraDsn.nets[1][n].pinRefs) =
              UNION {TraceRefs(circuitJson.source_trace[u]) :
                       u \in {v \in AnchoredTraces : TraceNetName(v) = TraceNetName(t)}}
    /\ \A t \in TwoPortTraces :
         (\A u \in AnchoredTraces : TraceNetName(u) = TraceNetName(t) => u = t) =>
           \A n \in NetsNamed(TraceNetName(t)) :
              Range(spectraDsn.nets[1][n].pinRefs) =
                TraceRefs(circuitJson.source_trace[t])

\* C20 witness: the stage has finished on a circuit with two two-port
\* traces that start at the same pin; their one net has three references.
C20_Witness ==
  /\ stageFinished[NETWORK]
  /\ \E t \in TwoPortTraces, u \in TwoPortTraces :
        /\ t # u
        /\ TraceNetName(t) = TraceNetName(u)
        /\ \E n \in NetsNamed(TraceNetName(t)) : Len(spectraDsn.nets[1][n].pinRefs) = 3

\* The same for a single trace that lists one of its two ports twice: its
\* net has two references.
C20_WitnessRepeatedPort ==
  /\ stageFinished[NETWORK]
  /\ \E t \in TwoPortTraces :
        /\ Len(TracePorts(circuitJson.source_trace[t])) = 3
        /\ \E n \in NetsNamed(TraceNetName(t)) :
              /\ Len(spectraDsn.nets[1][n].pinRefs) = 2
              /\ spectraDsn.nets[1][n].netName = "Net-(pcb_component_1-Padpin1)"

\* <name>_<sourceNetId>
SourceNetName(sourceNet) == sourceNet.name \o "_" \o sourceNet.source_net_id

\* The traces that list a source net.
TracesListing(sourceNetId) ==
  {t \in DOMAIN circuitJson.source_trace :
     /\ circuitJson.source_trace[t].connected_source_net_ids # None
     /\ sourceNetId \in Range(circuitJson.source_trace[t].connected_source_net_ids[1])}

\* The pin references of the resolving ports of the traces that list a source net.
SourceNetRefs(sourceNetId) ==
  UNION {TraceRefs(circuitJson.source_trace[t]) : t \in TracesListing(sourceNetId)}

\* The pin references every net entry of a name collects: those of the
\* traces named so after their first pad and those of the source nets named so.
EntryRefs(netName) ==
  UNION ({TraceRefs(circuitJson.source_trace[t]) :
            t \in {u \in AnchoredTraces : TraceNetName(u) = netName}}
         \cup {SourceNetRefs(circuitJson.source_net[i].source_net_id) :
                 i \in {j \in DOMAIN circuitJson.source_net :
                          SourceNetName(circuitJson.source_net[j]) = netName}})

\* C21: once the Network stage has finished every emitted net has at least
\* one pin reference, no two emitted nets have the same name, and a source
\* net whose name collects no resolving port has no net record.
C21_NoEmptyNets ==
  stageFinished[NETWORK] =>
    /\ \A n \in DOMAIN spectraDsn.nets[1] : spectraDsn.nets[1][n].pinRefs # <<>>
    /\ \A a \in DOMAIN spectraDsn.nets[1], b \in DOMAIN spectraDsn.nets[1] :
         spectraDsn.nets[1][a].netName = spectraDsn.nets[1][b].netName => a = b
    /\ \A i \in DOMAIN circuitJson.source_net :
         EntryRefs(SourceNetName(circuitJson.source_net[i])) = {} =>
           NetsNamed(SourceNetName(circuitJson.source_net[i])) = {}

\* C21 witness: the stage has finished and has emitted a net, and a source
\* net that a trace with ports lists has no net record because none of
\* those ports resolves.
C21_Witness ==
  /\ stageFinished[NETWORK]
  /\ spectraDsn.nets[1] # <<>>
  /\ \E i \in DOMAIN circuitJson.source_net :
        /\ \E t \in TracesListing(circuitJson.source_net[i].source_net_id) :
              TracePorts(circuitJson.source_trace[t]) # <<>>
        /\ EntryRefs(SourceNetName(circuitJson.source_net[i])) = {}
        /\ NetsNamed(SourceNetName(circuitJson.source_net[i])) = {}

\* C22: once the Network stage has finished, two source nets with
\* different ids have been given different net names, and the net emitted
\* under the name of a source net holds pin references of that source net
\* only.
C22_SourceNetNamesUnique ==
  stageFinished[NETWORK] =>
    /\ \A i \in DOMAIN circuitJson.source_net, j \in DOMAIN circuitJson.source_net :
         circuitJson.source_net[i].source_net_id # circuitJson.source_net[j].source_net_id
           => SourceNetName(circuitJson.source_net[i]) # SourceNetName(circuitJson.source_net[j])
    /\ \A i \in DOMAIN circuitJson.source_net :
          \A n \in NetsNamed(SourceNetName(circuitJson.source_net[i])) :
             Range(spectraDsn.nets[1][n].pinRefs) \subseteq
               SourceNetRefs(circuitJson.source_net[i].source_net_id)

\* The part of C22 about equal names: source nets of the same name and
\* different ids have different net names and nets of their own.
SameNameNetsDistinct ==
  /\ \A i \in DOMAIN circuitJson.source_net, j \in DOMAIN circuitJson.source_net :
       /\ circuitJson.source_net[i].source_net_id # circuitJson.source_net[j].source_net_id
       /\ circuitJson.source_net[i].name = circuitJson.source_net[j].name
       => SourceNetName(circuitJson.source_net[i]) # SourceNetName(circuitJson.source_net[j])
  /\ stageFinished[NETWORK] =>
       \A i \in DOMAIN circuitJson.source_net :
          (\A j \in DOMAIN circuitJson.source_net :
              SourceNetName(circuitJson.source_net[j]) = SourceNetName(circuitJson.source_net[i])
                => j = i) =>
            \A n \in NetsNamed(SourceNetName(circuitJson.source_net[i])) :
               Range(spectraDsn.nets[1][n].pinRefs) =
                 SourceNetRefs(circuitJson.source_net[i].source_net_id)

\* The emitted nets that hold every pin reference of a trace.
NetsHolding(trace) ==
  {n \in DOMAIN spectraDsn.nets[1] :
     TraceRefs(trace) \subseteq Range(spectraDsn.nets[1][n].pinRefs)}

\* The source nets of the input that a trace lists.
ListedSourceNets(trace) ==
  {i \in DOMAIN circuitJson.source_net :
     /\ trace.connected_source_net_ids # None
     /\ circuitJson.source_net[i].source_net_id \in Range(trace.connected_source_net_ids[1])}

\* C23: once the Network stage has finished, the pin references of a trace
\* with two or more ports whose first port resolves and that lists a source
\* net are held by one emitted net only, not by a net Net-(...) and by a
\* net <name>_<sourceNetId> as well.
C23_OneNetPerTrace ==
  stageFinished[NETWORK] =>
    \A t \in AnchoredTraces :
       ListedSourceNets(circuitJson.source_trace[t]) # {} =>
         Cardinality(NetsHolding(circuitJson.source_trace[t])) = 1

\* The document the five stages build, one after the other, from the
\* records of an input and from nothing else.
DocumentOf(cj) ==
  LET tm == Some(CIRCUIT_JSON_TO_DSN_SCALE)
      structure == AddStructureStageDoc(InitializedDsn, tm, cj)
      library == AddLibraryStageRun(tm, cj, {}, <<>>)
  IN [structure EXCEPT
        !.images = Some(library.images),
        !.padstacks = Some(library.padstacks),
        !.components = Some(PlacementComponents(cj, library.c2f, tm[1])),
        !.nets = Some(NetworkNets(cj))]

C24_WitnessRun ==
  /\ finished
  /\ caller.at = "runReturned"
  /\ \A s \in Stages : stepCalls[s] = 1
  /\ spectraDsn = DocumentOf(circuitJson)
  /\ spectraDsn.images[1] # <<>>
  /\ spectraDsn.nets[1] # <<>>

\* The fields of the document a stage assigns.
OwnFields(stage) ==
  CASE stage = STRUCTURE -> {"layers", "boundary", "rules"}
    [] stage = LIBRARY -> {"images", "padstacks"}
    [] stage = PLACEMENT -> {"components"}
    [] stage = NETWORK -> {"nets"}

UnanchoredTraces ==
  {t \in DOMAIN circuitJson.source_trace \ AnchoredTraces :
     TraceRefs(circuitJson.source_trace[t]) # {}}

\* The names the trace pass and the source-net pass give.
TraceNetNames == {TraceNetName(t) : t \in AnchoredTraces}
SourceNetNames == {SourceNetName(circuitJson.source_net[i]) : i \in DOMAIN circuitJson.source_net}

NetsWith(ref) ==
  {n \in DOMAIN spectraDsn.nets[1] : ref \in Range(spectraDsn.nets[1][n].pinRefs)}

DriverPositionOk ==
  /\ currentStageIndex \in 0 .. PipelineLen
  /\ \A stage \in Stages :
       /\ stage < currentStageIndex => stageFinished[stage]
       /\ stage > currentStageIndex =>
            iteration[stage] = 0 /\ stepCalls[stage] = 0 /\ ~stageFinished[stage]
  /\ finished => currentStageIndex = PipelineLen

\* C27: under calls of the driver alone, the stage index is between 0 and
\* the pipeline length and never decreases, every stage before it is
\* finished, every stage after it has never been stepped, the driver is
\* finished only with the index at the pipeline length, and a step of a
\* finished driver changes nothing and raises nothing.
C27_DriverInvariant ==
  /\ []DriverPositionOk
  /\ [][/\ currentStageIndex' >= currentStageIndex
        /\ finished =>
             /\ UNCHANGED <<currentStageIndex, finished, iteration, stageFinished,
                            stepCalls, spectraDsn, componentToFootprintName,
                            viaPadstackName, processedPadstacks,
                            footprintSignatureToName, circuitJson, transformMatrix>>
             /\ fault' = "none"]_vars

\* C27 witness: a step() made on the finished driver has returned.
C27_Witness ==
  /\ finished
  /\ currentStageIndex = PipelineLen
  /\ caller = OnDriver("stepReturned")
  /\ \A stage \in Stages : stageFinished[stage] /\ iteration[stage] = 1

\* The same in the middle of the pipeline: the Library stage has thrown
\* twice, the stages before it are finished and those after it untouched.
C27_WitnessMidway ==
  /\ ~finished
  /\ currentStageIndex = LIBRARY
  /\ iteration[LIBRARY] = 2
  /\ fault # "none"
  /\ stageFinished[INITIALIZE] /\ stageFinished[STRUCTURE]
  /\ iteration[PLACEMENT] = 0 /\ iteration[NETWORK] = 0

\* The pads and holes the Network stage knows whose pin reference is in an
\* emitted net.
ConnectedPads ==
  {PadsBySourcePortId(circuitJson)[q][2] : q \in
     {e \in DOMAIN PadsBySourcePortId(circuitJson) :
        NetsWith(PinRef(PadsBySourcePortId(circuitJson)[e][2])) # {}}}

\* The pin ids of the image of a name.
ImagePinIds(imageId) ==
  UNION {{spectraDsn.images[1][i].pins[k].pinId : k \in DOMAIN spectraDsn.images[1][i].pins} :
           i \in {j \in DOMAIN spectraDsn.images[1] :
                    spectraDsn.images[1][j].imageId = imageId}}

\* C28: once the Network stage has finished, the component of every pin
\* reference in an emitted net has a footprint, and the image of that
\* footprint has a pin of that pin number.
C28_NetPinsAreImagePins ==
  stageFinished[NETWORK] /\ stageFinished[LIBRARY] =>
    \A pad \in ConnectedPads :
       /\ MapHas(componentToFootprintName[1], pad.pcbComponentId)
       /\ pad.pinNumber \in
            ImagePinIds(MapGet(componentToFootprintName[1], pad.pcbComponentId))

\* The part of C28 about the footprint: the component of every pin
\* reference in an emitted net has a footprint whose image is in the library.
NetPinsHaveFootprint ==
  stageFinished[NETWORK] /\ stageFinished[LIBRARY] =>
    \A pad \in ConnectedPads :
       /\ MapHas(componentToFootprintName[1], pad.pcbComponentId)
       /\ ImagePinIds(MapGet(componentToFootprintName[1], pad.pcbComponentId)) # {}

\* The images of a name and the padstacks of an id in the library.
ImagesNamed(imageId) ==
  {i \in DOMAIN spectraDsn.images[1] : spectraDsn.images[1][i].imageId = imageId}
PadstacksNamed(padstackId) ==
  {i \in DOMAIN spectraDsn.padstacks[1] : spectraDsn.padstacks[1][i].padstackId = padstackId}

\* C29: when the driver has finished, the footprint name of every placement
\* entry is the id of exactly one image of the library and the padstack id
\* of every pin of every image is the id of exactly one padstack of the
\* library.
C29_ReferentiallyClosed ==
  finished =>
    /\ \A c \in DOMAIN spectraDsn.components[1] :
         Cardinality(ImagesNamed(spectraDsn.components[1][c].imageId)) = 1
    /\ \A i \in DOMAIN spectraDsn.images[1] :
         \A k \in DOMAIN spectraDsn.images[1][i].pins :
            Cardinality(PadstacksNamed(spectraDsn.images[1][i].pins[k].padstackId)) = 1
    /\ \A a \in DOMAIN spectraDsn.padstacks[1], b \in DOMAIN spectraDsn.padstacks[1] :
         spectraDsn.padstacks[1][a].padstackId = spectraDsn.padstacks[1][b].padstackId
           => a = b

\* C29 witness: the driver has finished; a footprint is placed twice, two
\* images are in the library, and two pins of an image have the same padstack.
C29_Witness ==
  /\ finished
  /\ \E c \in DOMAIN spectraDsn.components[1] : Len(spectraDsn.components[1][c].places) = 2
  /\ Len(spectraDsn.images[1]) = 2
  /\ \E i \in DOMAIN spectraDsn.images[1] :
        \E k \in DOMAIN spectraDsn.images[1][i].pins, l \in DOMAIN spectraDsn.images[1][i].pins :
           /\ k # l
           /\ spectraDsn.images[1][i].pins[k].padstackId =
                spectraDsn.images[1][i].pins[l].padstackId

\* A call of the Library stage's _step on the finished stage has returned.
LibraryStepAgain ==
  /\ stepCalls'[LIBRARY] # stepCalls[LIBRARY]
  /\ stageFinished[LIBRARY]
  /\ fault' = "none"

\* Every pin of every image refers to a padstack of the library.
PinsHavePadstacks ==
  \A i \in DOMAIN spectraDsn.images[1] :
     \A k \in DOMAIN spectraDsn.images[1][i].pins :
        PadstacksNamed(spectraDsn.images[1][i].pins[k].padstackId) # {}

\* C30: a call of step() on the Library stage that has already finished
\* leaves library.images and library.padstacks as they were, and whenever
\* the stage is finished every image pin refers to a padstack of the library.
C30_LibraryStepRepeatable ==
  /\ [][LibraryStepAgain =>
          /\ spectraDsn'.images = spectraDsn.images
          /\ spectraDsn'.padstacks = spectraDsn.padstacks]_vars
  /\ [](stageFinished[LIBRARY] => PinsHavePadstacks)

\* The part of C30 about the images: the second call rebuilds the same
\* images and the same component-to-footprint map.
LibraryImagesReproduced ==
  [][LibraryStepAgain =>
       /\ spectraDsn'.images = spectraDsn.images
       /\ componentToFootprintName' = componentToFootprintName]_vars

\* What the second call does to the padstacks: it leaves none.
LibraryPadstacksEmptied ==
  [][LibraryStepAgain => spectraDsn'.padstacks = Some(<<>>)]_vars

====
